---- MODULE Spec2Model ----
(***************************************************************************)
(* Model of the malformed-JSON recovery pipeline of internvl_PoC:          *)
(*   internvl/extraction/json_extraction_fixed.py  (extraction used by the *)
(*                                                  normalizer)            *)
(*   internvl/extraction/json_extraction.py        (package-exported       *)
(*                                                  extraction)            *)
(*   internvl/extraction/normalization.py          (field normalizers,     *)
(*                                                  post processing, retry)*)
(*                                                                         *)
(* A text is a sequence of characters; a character is a one-character      *)
(* string, except the control characters that TLA+ strings cannot spell:   *)
(* "BS" (U+0008), "VT" (U+000B), "DEL" (U+007F), "NBSP" (U+00A0), and the *)
(* backquote, written "BQ".                                                *)
(* The regular expressions of the source are written as syntax trees and   *)
(* matched by a backtracking matcher with Python's priorities (leftmost    *)
(* start, greedy/lazy repetition, ordered alternation).                    *)
(***************************************************************************)
EXTENDS Integers, Sequences, FiniteSets, TLC

(***************************************************************************)
(* Characters and character classes                                        *)
(***************************************************************************)
Digit == {"0", "1", "2", "3", "4", "5", "6", "7", "8", "9"}

Lower == {"a", "b", "c", "d", "e", "f", "g", "h", "i", "j", "k", "l", "m",
          "n", "o", "p", "q", "r", "s", "t", "u", "v", "w", "x", "y", "z"}

Upper == {"A", "B", "C", "D", "E", "F", "G", "H", "I", "J", "K", "L", "M",
          "N", "O", "P", "Q", "R", "S", "T", "U", "V", "W", "X", "Y", "Z"}

\* \w of a str pattern (ASCII part of it)
WordCh == Lower \cup Upper \cup Digit \cup {"_"}

\* \s of a str pattern: [ \t\n\r\f\v] (and U+00A0, which str.strip also strips)
SpaceCh == {" ", "\t", "\n", "\r", "\f", "VT", "NBSP"}

\* characters with code below 32, and DEL
CtrlBelow32 == {"\t", "\n", "\r", "\f", "VT", "BS"}

\* string.printable: digits, letters, punctuation and " \t\n\r\x0b\x0c"
Punct == {"!", "\"", "#", "$", "%", "&", "'", "(", ")", "*", "+", ",", "-",
          ".", "/", ":", ";", "<", "=", ">", "?", "@", "[", "\\", "]", "^",
          "_", "BQ", "{", "|", "}", "~"}

Printable == Digit \cup Lower \cup Upper \cup Punct
             \cup {" ", "\t", "\n", "\r", "VT", "\f"}

(***************************************************************************)
(* Sequence helpers (str methods)                                          *)
(***************************************************************************)
Slice(s, a, b) == IF a > b THEN <<>> ELSE SubSeq(s, a, b)

\* sub in s  (substring test)
Contains(s, sub) ==
    \E i \in 1..(Len(s) - Len(sub) + 1) : Slice(s, i, i + Len(sub) - 1) = sub

\* s.count(c) for a one-character c
Count(s, c) == Cardinality({i \in 1..Len(s) : s[i] = c})

\* s.strip()
Strip(s) ==
    LET keep == {i \in 1..Len(s) : s[i] \notin SpaceCh}
    IN IF keep = {} THEN <<>>
       ELSE LET lo == CHOOSE i \in keep : \A j \in keep : i <= j
                hi == CHOOSE i \in keep : \A j \in keep : i >= j
            IN SubSeq(s, lo, hi)

\* s.rstrip(",")
RStripComma(s) ==
    LET keep == {i \in 1..Len(s) : s[i] # ","}
    IN IF keep = {} THEN <<>>
       ELSE SubSeq(s, 1, CHOOSE i \in keep : \A j \in keep : i >= j)

RECURSIVE Flatten(_)
\* "".join(parts)  (halving keeps the evaluation shallow)
Flatten(parts) ==
    IF parts = <<>> THEN <<>>
    ELSE IF Len(parts) = 1 THEN parts[1]
    ELSE LET h == Len(parts) \div 2
         IN Flatten(SubSeq(parts, 1, h)) \o Flatten(SubSeq(parts, h + 1, Len(parts)))

\* s.replace(c, r) for a one-character c
ReplaceCh(s, c, r) ==
    Flatten([i \in 1..Len(s) |-> IF s[i] = c THEN r ELSE <<s[i]>>])

(***************************************************************************)
(* Regular expressions (module re)                                         *)
(*   a pattern is a sequence of nodes:                                     *)
(*     [t |-> "ch",  s, neg]       one character in (not in) s             *)
(*     [t |-> "rep", s, neg, lazy] zero or more of such characters         *)
(*     [t |-> "alt", a]            ordered alternatives (sequences)        *)
(*     [t |-> "open", k] / [t |-> "close", k]  capture group k             *)
(*     [t |-> "eol", m]            $ (m: re.MULTILINE)                     *)
(***************************************************************************)
Ch(S) == [t |-> "ch", s |-> S, neg |-> FALSE]
NotCh(S) == [t |-> "ch", s |-> S, neg |-> TRUE]
Star(S) == [t |-> "rep", s |-> S, neg |-> FALSE, lazy |-> FALSE]
StarLazy(S) == [t |-> "rep", s |-> S, neg |-> FALSE, lazy |-> TRUE]
NotStar(S) == [t |-> "rep", s |-> S, neg |-> TRUE, lazy |-> FALSE]
NotStarLazy(S) == [t |-> "rep", s |-> S, neg |-> TRUE, lazy |-> TRUE]
Alt(alts) == [t |-> "alt", a |-> alts]
Open(k) == [t |-> "open", k |-> k]
Close(k) == [t |-> "close", k |-> k]
Eol(m) == [t |-> "eol", m |-> m]
Lit(chars) == [i \in 1..Len(chars) |-> Ch({chars[i]})]

\* "." with re.DOTALL is NotCh({}); without the flag it is NotCh({"\n"})
AnyStarLazy == NotStarLazy({})

NoMatch == [ok |-> FALSE]

NoCaps == [k \in 1..3 |-> <<1, 0>>]

InClass(n, c) == IF n.neg THEN c \notin n.s ELSE c \in n.s

\* number of consecutive characters of class n in s from position i on
RunLen(n, s, i) ==
    LET stop == {j \in i..Len(s) : ~InClass(n, s[j])}
    IN IF stop = {} THEN Len(s) + 1 - i
       ELSE (CHOOSE j \in stop : \A k \in stop : j <= k) - i

AtEol(m, s, i) ==
    \/ i = Len(s) + 1
    \/ m /\ i <= Len(s) /\ s[i] = "\n"
    \/ ~m /\ i = Len(s) /\ s[i] = "\n"

RECURSIVE MatchAt(_, _, _, _)
RECURSIVE TryRep(_, _, _, _, _, _, _)
RECURSIVE TryAlt(_, _, _, _, _)

\* match the node sequence p on s at position i (1-based), captures c so far:
\* the first match in backtracking order, NoMatch if there is none
MatchAt(p, s, i, c) ==
    IF p = <<>> THEN [ok |-> TRUE, e |-> i, c |-> c]
    ELSE LET n == Head(p)
             rest == Tail(p)
         IN CASE n.t = "ch" ->
                   IF i <= Len(s) /\ InClass(n, s[i])
                   THEN MatchAt(rest, s, i + 1, c) ELSE NoMatch
              [] n.t = "rep" ->
                   LET max == RunLen(n, s, i)
                   IN TryRep(rest, s, i, c, 0, max, n.lazy)
              [] n.t = "alt" -> TryAlt(n.a, rest, s, i, c)
              [] n.t = "open" ->
                   MatchAt(rest, s, i, [c EXCEPT ![n.k] = <<i, i - 1>>])
              [] n.t = "close" ->
                   MatchAt(rest, s, i, [c EXCEPT ![n.k] = <<c[n.k][1], i - 1>>])
              [] n.t = "eol" ->
                   IF AtEol(n.m, s, i) THEN MatchAt(rest, s, i, c) ELSE NoMatch

\* try the repetition counts lo..hi, in increasing order if lazy and in
\* decreasing order if greedy, and continue with rest after each
TryRep(rest, s, i, c, lo, hi, lazy) ==
    IF lo = hi THEN MatchAt(rest, s, i + lo, c)
    ELSE LET mid == (lo + hi) \div 2
             first == IF lazy THEN TryRep(rest, s, i, c, lo, mid, lazy)
                      ELSE TryRep(rest, s, i, c, mid + 1, hi, lazy)
         IN IF first.ok THEN first
            ELSE IF lazy THEN TryRep(rest, s, i, c, mid + 1, hi, lazy)
            ELSE TryRep(rest, s, i, c, lo, mid, lazy)

TryAlt(alts, rest, s, i, c) ==
    IF alts = <<>> THEN NoMatch
    ELSE LET r == MatchAt(Head(alts) \o rest, s, i, c)
         IN IF r.ok THEN r ELSE TryAlt(Tail(alts), rest, s, i, c)

\* the match r found at position b, as a match object
MatchFrom(b, r) ==
    IF r.ok THEN [ok |-> TRUE, b |-> b, e |-> r.e, c |-> r.c] ELSE NoMatch

RECURSIVE SearchIn(_, _, _, _)
RECURSIVE SearchRight(_, _, _, _, _)
\* the match with the leftmost start in lo..hi
SearchIn(p, s, lo, hi) ==
    IF lo > hi THEN NoMatch
    ELSE IF lo = hi THEN MatchFrom(lo, MatchAt(p, s, lo, NoCaps))
    ELSE SearchRight(p, s, ((lo + hi) \div 2) + 1, hi, SearchIn(p, s, lo, (lo + hi) \div 2))

\* left if it is a match, else the leftmost match in lo..hi
SearchRight(p, s, lo, hi, left) ==
    IF left.ok THEN left ELSE SearchIn(p, s, lo, hi)

\* re.search from position i on: [ok, b (start), e (one past the end), c]
SearchFrom(p, s, i) == SearchIn(p, s, i, Len(s) + 1)

Search(p, s) == SearchFrom(p, s, 1)

Group(s, m, k) == Slice(s, m.c[k][1], m.c[k][2])

RECURSIVE FindAllFrom(_, _, _)
RECURSIVE FindAllAfter(_, _, _)
\* re.finditer: the non-overlapping matches, left to right
FindAllFrom(p, s, i) == FindAllAfter(p, s, SearchFrom(p, s, i))

\* the match m, if it is one, and the matches after it
FindAllAfter(p, s, m) ==
    IF ~m.ok THEN <<>>
    ELSE <<m>> \o FindAllFrom(p, s, IF m.e > m.b THEN m.e ELSE m.e + 1)

FindAll(p, s) == FindAllFrom(p, s, 1)

\* value.replace('\n', '\\n').replace('\r', '\\r')
EscapeNewlines(s) == ReplaceCh(ReplaceCh(s, "\n", <<"\\", "n">>), "\r", <<"\\", "r">>)

\* a replacement is a sequence of parts: a literal text L(chars), a group
\* reference G(k) (\1, \2, \3), and for the replacement functions of the
\* source the group with its newlines escaped, GE(k), or stripped, GS(k)
L(chars) == [g |-> 0, l |-> chars, f |-> "id"]
G(k) == [g |-> k, l |-> <<>>, f |-> "id"]
GE(k) == [g |-> k, l |-> <<>>, f |-> "escape"]
GS(k) == [g |-> k, l |-> <<>>, f |-> "strip"]

ExpandPart(part, s, m) ==
    IF part.g = 0 THEN part.l
    ELSE IF part.f = "escape" THEN EscapeNewlines(Group(s, m, part.g))
    ELSE IF part.f = "strip" THEN Strip(Group(s, m, part.g))
    ELSE Group(s, m, part.g)

Expand(tpl, s, m) == Flatten([i \in 1..Len(tpl) |-> ExpandPart(tpl[i], s, m)])

RECURSIVE SubFrom(_, _, _, _)
RECURSIVE SubAfter(_, _, _, _, _)
\* re.sub(p, tpl, s), from position i on
SubFrom(p, tpl, s, i) == SubAfter(p, tpl, s, i, SearchFrom(p, s, i))

\* the text from i up to the match m, its replacement, and the rest replaced
SubAfter(p, tpl, s, i, m) ==
    IF ~m.ok THEN Slice(s, i, Len(s))
    ELSE Slice(s, i, m.b - 1) \o Expand(tpl, s, m)
         \o (IF m.e > m.b THEN <<>> ELSE Slice(s, m.b, m.b))
         \o SubFrom(p, tpl, s, IF m.e > m.b THEN m.e ELSE m.b + 1)

Sub(p, tpl, s) == SubFrom(p, tpl, s, 1)

(***************************************************************************)
(* Python values: str, list, dict, number, and the literals of JSON        *)
(***************************************************************************)
PStr(chars) == [t |-> "str", v |-> chars]
PList(items) == [t |-> "list", v |-> items]
PDict(f) == [t |-> "dict", v |-> f]
PNum(lexeme) == [t |-> "num", v |-> lexeme]
PLit(name) == [t |-> "lit", v |-> name]

EmptyDict == PDict(<<>>)

\* "key in data" for a dict
HasKey(d, k) == d.t = "dict" /\ k \in DOMAIN d.v

\* data[key] = value
SetKey(d, k, val) ==
    PDict([x \in (DOMAIN d.v) \cup {k} |-> IF x = k THEN val ELSE d.v[x]])

\* a dict under construction: the dict d and its keys in insertion order o
NewDict == [d |-> EmptyDict, o |-> <<>>]

Put(b, k, val) ==
    [d |-> SetKey(b.d, k, val),
     o |-> IF k \in DOMAIN b.d.v THEN b.o ELSE Append(b.o, k)]

\* bool(value)
Truthy(x) ==
    CASE x.t = "str" -> x.v # <<>>
      [] x.t = "list" -> x.v # <<>>
      [] x.t = "dict" -> DOMAIN x.v # {}
      [] x.t = "num" ->
           \E i \in 1..Len(x.v) :
              /\ x.v[i] \in Digit \ {"0"}
              /\ \A j \in 1..i : x.v[j] \notin {"e", "E"}
      [] x.t = "lit" -> x.v \notin {"null", "false"}

(***************************************************************************)
(* json.dumps(data, indent=2) and json.loads (module json)                 *)
(***************************************************************************)
\* the escape of one character in a JSON string (ensure_ascii)
EscapeCh(c) ==
    CASE c = "\"" -> <<"\\", "\"">>
      [] c = "\\" -> <<"\\", "\\">>
      [] c = "\n" -> <<"\\", "n">>
      [] c = "\r" -> <<"\\", "r">>
      [] c = "\t" -> <<"\\", "t">>
      [] c = "\f" -> <<"\\", "f">>
      [] c = "BS" -> <<"\\", "b">>
      [] c = "VT" -> <<"\\", "u", "0", "0", "0", "b">>
      [] c = "NBSP" -> <<"\\", "u", "0", "0", "a", "0">>
      [] OTHER -> <<c>>

DumpStr(chars) ==
    <<"\"">> \o Flatten([i \in 1..Len(chars) |-> EscapeCh(chars[i])]) \o <<"\"">>

\* sep.join(parts)
JoinWith(parts, sep) ==
    Flatten([i \in 1..Len(parts) |-> IF i = 1 THEN parts[i] ELSE sep \o parts[i]])

\* a str or a list of str, as a member value at nesting level 1
DumpMember(x) ==
    IF x.t = "str" THEN DumpStr(x.v)
    ELSE IF x.v = <<>> THEN <<"[", "]">>
    ELSE <<"[", "\n", " ", " ", " ", " ">>
         \o JoinWith([i \in 1..Len(x.v) |-> DumpStr(x.v[i].v)],
                     <<",", "\n", " ", " ", " ", " ">>)
         \o <<"\n", " ", " ", "]">>

\* json.dumps(data, indent=2) of a dict of str and list-of-str values; b is
\* the dict with its insertion order
JsonDumps(b) ==
    IF b.o = <<>> THEN <<"{", "}">>
    ELSE <<"{", "\n", " ", " ">>
         \o JoinWith([i \in 1..Len(b.o) |->
                         DumpStr(b.o[i]) \o <<":", " ">>
                         \o DumpMember(b.d.v[b.o[i]])],
                     <<",", "\n", " ", " ">>)
         \o <<"\n", "}">>

JsonWs == {" ", "\t", "\n", "\r"}

SkipWs(s, i) == i + RunLen(Ch(JsonWs), s, i)

Fail == [ok |-> FALSE]

HexDigit == Digit \cup {"a", "b", "c", "d", "e", "f", "A", "B", "C", "D", "E", "F"}

\* the character of a \uXXXX escape; code points outside the alphabet of the
\* model are all written "UNI"
Unescape4(h) ==
    CASE h \in {<<"0", "0", "0", "8">>} -> "BS"
      [] h \in {<<"0", "0", "0", "b">>, <<"0", "0", "0", "B">>} -> "VT"
      [] h \in {<<"0", "0", "a", "0">>, <<"0", "0", "A", "0">>} -> "NBSP"
      [] h \in {<<"0", "0", "7", "f">>, <<"0", "0", "7", "F">>} -> "DEL"
      [] OTHER -> "UNI"

SimpleEscape(c) ==
    CASE c = "b" -> "BS" [] c = "f" -> "\f" [] c = "n" -> "\n"
      [] c = "r" -> "\r" [] c = "t" -> "\t" [] OTHER -> c

RECURSIVE ScanString(_, _, _)
\* py_scanstring (strict): s[i-1] is the opening quote, acc the text so far
ScanString(s, i, acc) ==
    IF i > Len(s) THEN Fail
    ELSE IF s[i] = "\"" THEN [ok |-> TRUE, v |-> acc, e |-> i + 1]
    ELSE IF s[i] \in CtrlBelow32 THEN Fail
    ELSE IF s[i] # "\\" THEN
        LET n == RunLen(NotCh(CtrlBelow32 \cup {"\"", "\\"}), s, i)
        IN ScanString(s, i + n, acc \o SubSeq(s, i, i + n - 1))
    ELSE IF i + 1 > Len(s) THEN Fail
    ELSE IF s[i + 1] \in {"\"", "\\", "/", "b", "f", "n", "r", "t"}
         THEN ScanString(s, i + 2, Append(acc, SimpleEscape(s[i + 1])))
    ELSE IF s[i + 1] = "u" /\ i + 5 <= Len(s)
            /\ \A j \in (i + 2)..(i + 5) : s[j] \in HexDigit
         THEN ScanString(s, i + 6, Append(acc, Unescape4(SubSeq(s, i + 2, i + 5))))
    ELSE Fail

\* x?: x or nothing, x first
Opt(x) == Alt(<<x, <<>>>>)

\* NUMBER_RE: (-?(?:0|[1-9]\d*))(\.\d+)?([eE][-+]?\d+)?
NUMBER_RE ==
    <<Opt(Lit(<<"-">>)),
      Alt(<<Lit(<<"0">>), <<Ch(Digit \ {"0"}), Star(Digit)>>>>),
      Opt(<<Ch({"."}), Ch(Digit), Star(Digit)>>),
      Opt(<<Ch({"e", "E"}), Opt(<<Ch({"-", "+"})>>), Ch(Digit), Star(Digit)>>)>>

\* one past the end of the match m, or i when m is no match
EndOr(m, i) == IF m.ok THEN m.e ELSE i

\* NUMBER_RE.match(s, i): one past the end of the number at i, or i itself
\* when there is no number
NumberEnd(s, i) == EndOr(MatchAt(NUMBER_RE, s, i, NoCaps), i)

StartsWith(s, i, w) == i + Len(w) - 1 <= Len(s) /\ SubSeq(s, i, i + Len(w) - 1) = w

\* the scanned string r as a JSON value
StringValue(r) == IF r.ok THEN [ok |-> TRUE, v |-> PStr(r.v), e |-> r.e] ELSE Fail

\* the constants that scan_once tries after a number
ScanConstant(s, i) ==
    IF StartsWith(s, i, <<"N", "a", "N">>)
    THEN [ok |-> TRUE, v |-> PLit("NaN"), e |-> i + 3]
    ELSE IF StartsWith(s, i, <<"I", "n", "f", "i", "n", "i", "t", "y">>)
         THEN [ok |-> TRUE, v |-> PLit("Infinity"), e |-> i + 8]
    ELSE IF StartsWith(s, i, <<"-", "I", "n", "f", "i", "n", "i", "t", "y">>)
         THEN [ok |-> TRUE, v |-> PLit("-Infinity"), e |-> i + 9]
    ELSE Fail

\* the number s[i..e-1], or one of the constants when e = i (no number)
ScanNumber(s, i, e) ==
    IF e > i THEN [ok |-> TRUE, v |-> PNum(SubSeq(s, i, e - 1)), e |-> e]
    ELSE ScanConstant(s, i)

RECURSIVE ScanOnce(_, _)
RECURSIVE ObjOpen(_, _)
RECURSIVE ObjMembers(_, _, _)
RECURSIVE ObjColon(_, _, _)
RECURSIVE ObjValue(_, _, _, _)
RECURSIVE ObjMember(_, _, _, _)
RECURSIVE ObjNext(_, _, _)
RECURSIVE ArrOpen(_, _)
RECURSIVE ArrItems(_, _, _)
RECURSIVE ArrItem(_, _, _)
RECURSIVE ArrNext(_, _, _)

\* scan_once: the JSON value starting at s[i]
ScanOnce(s, i) ==
    IF i > Len(s) THEN Fail
    ELSE IF s[i] = "\"" THEN StringValue(ScanString(s, i + 1, <<>>))
    ELSE IF s[i] = "{" THEN ObjOpen(s, SkipWs(s, i + 1))
    ELSE IF s[i] = "[" THEN ArrOpen(s, SkipWs(s, i + 1))
    ELSE IF StartsWith(s, i, <<"n", "u", "l", "l">>)
         THEN [ok |-> TRUE, v |-> PLit("null"), e |-> i + 4]
    ELSE IF StartsWith(s, i, <<"t", "r", "u", "e">>)
         THEN [ok |-> TRUE, v |-> PLit("true"), e |-> i + 4]
    ELSE IF StartsWith(s, i, <<"f", "a", "l", "s", "e">>)
         THEN [ok |-> TRUE, v |-> PLit("false"), e |-> i + 5]
    ELSE ScanNumber(s, i, NumberEnd(s, i))

\* JSONObject: j is the first position after "{" and its white space
ObjOpen(s, j) ==
    IF j <= Len(s) /\ s[j] = "}" THEN [ok |-> TRUE, v |-> EmptyDict, e |-> j + 1]
    ELSE ObjMembers(s, j, EmptyDict)

\* s[i] must open the next key; d holds the members so far
ObjMembers(s, i, d) ==
    IF i > Len(s) \/ s[i] # "\"" THEN Fail
    ELSE ObjColon(s, d, ScanString(s, i + 1, <<>>))

\* the key k has been scanned: a colon must follow
ObjColon(s, d, k) ==
    IF ~k.ok THEN Fail ELSE ObjValue(s, d, k.v, SkipWs(s, k.e))

\* c is the position where the colon must be: the value follows it
ObjValue(s, d, key, c) ==
    IF c > Len(s) \/ s[c] # ":" THEN Fail
    ELSE ObjMember(s, d, key, ScanOnce(s, SkipWs(s, c + 1)))

\* the value val of the key has been scanned
ObjMember(s, d, key, val) ==
    IF ~val.ok THEN Fail
    ELSE ObjNext(s, SetKey(d, key, val.v), SkipWs(s, val.e))

\* n is the position after a member: "}" ends the object, "," continues it
ObjNext(s, d, n) ==
    IF n > Len(s) THEN Fail
    ELSE IF s[n] = "}" THEN [ok |-> TRUE, v |-> d, e |-> n + 1]
    ELSE IF s[n] # "," THEN Fail
    ELSE ObjMembers(s, SkipWs(s, n + 1), d)

\* JSONArray: j is the first position after "[" and its white space
ArrOpen(s, j) ==
    IF j <= Len(s) /\ s[j] = "]" THEN [ok |-> TRUE, v |-> PList(<<>>), e |-> j + 1]
    ELSE ArrItems(s, j, <<>>)

\* s[i] starts the next item; acc holds the items so far
ArrItems(s, i, acc) == ArrItem(s, acc, ScanOnce(s, i))

\* the item val has been scanned
ArrItem(s, acc, val) ==
    IF ~val.ok THEN Fail
    ELSE ArrNext(s, Append(acc, val.v), SkipWs(s, val.e))

\* n is the position after an item: "]" ends the array, "," continues it
ArrNext(s, acc, n) ==
    IF n > Len(s) THEN Fail
    ELSE IF s[n] = "]" THEN [ok |-> TRUE, v |-> PList(acc), e |-> n + 1]
    ELSE IF s[n] # "," THEN Fail
    ELSE ArrItems(s, SkipWs(s, n + 1), acc)

\* the value r when nothing but white space follows it
WholeDocument(s, r) ==
    IF ~r.ok THEN Fail
    ELSE IF SkipWs(s, r.e) # Len(s) + 1 THEN Fail
    ELSE [ok |-> TRUE, v |-> r.v]

\* json.loads(s): [ok |-> TRUE, v |-> value], or [ok |-> FALSE] for
\* json.JSONDecodeError
JsonLoads(s) == WholeDocument(s, ScanOnce(s, SkipWs(s, 1)))

(***************************************************************************)
(* internvl/extraction/json_extraction_fixed.py                            *)
(***************************************************************************)
Q == "\""

\* the keys of the records, as texts
K_date_value ==
    <<"d", "a", "t", "e", "_", "v", "a", "l", "u", "e">>

K_store_name_value ==
    <<"s", "t", "o", "r", "e", "_", "n", "a", "m", "e", "_", "v", "a", "l", "u", "e">>

K_tax_value ==
    <<"t", "a", "x", "_", "v", "a", "l", "u", "e">>

K_total_value ==
    <<"t", "o", "t", "a", "l", "_", "v", "a", "l", "u", "e">>

K_prod_item_value ==
    <<"p", "r", "o", "d", "_", "i", "t", "e", "m", "_", "v", "a", "l", "u", "e">>

K_prod_quantity_value ==
    <<"p", "r", "o", "d", "_", "q", "u", "a", "n", "t", "i", "t", "y", "_", "v", "a", "l", "u", "e">>

K_prod_price_value ==
    <<"p", "r", "o", "d", "_", "p", "r", "i", "c", "e", "_", "v", "a", "l", "u", "e">>

K_error ==
    <<"e", "r", "r", "o", "r">>

K__confidence_score ==
    <<"_", "c", "o", "n", "f", "i", "d", "e", "n", "c", "e", "_", "s", "c", "o", "r", "e">>

K__confidence_components ==
    <<"_", "c", "o", "n", "f", "i", "d", "e", "n", "c", "e", "_", "c", "o", "m", "p", "o", "n", "e", "n", "t", "s">>

K__confidence_summary ==
    <<"_", "c", "o", "n", "f", "i", "d", "e", "n", "c", "e", "_", "s", "u", "m", "m", "a", "r", "y">>

K__retry_improved ==
    <<"_", "r", "e", "t", "r", "y", "_", "i", "m", "p", "r", "o", "v", "e", "d">>

K__original_confidence ==
    <<"_", "o", "r", "i", "g", "i", "n", "a", "l", "_", "c", "o", "n", "f", "i", "d", "e", "n", "c", "e">>

K__retry_attempted ==
    <<"_", "r", "e", "t", "r", "y", "_", "a", "t", "t", "e", "m", "p", "t", "e", "d">>

K__retry_confidence ==
    <<"_", "r", "e", "t", "r", "y", "_", "c", "o", "n", "f", "i", "d", "e", "n", "c", "e">>

K__retry_failed ==
    <<"_", "r", "e", "t", "r", "y", "_", "f", "a", "i", "l", "e", "d">>

ScalarFields == {K_date_value, K_store_name_value, K_tax_value, K_total_value}

ArrayFields == {K_prod_item_value, K_prod_quantity_value, K_prod_price_value}

CanonicalKeys == ScalarFields \cup ArrayFields

\* the order in which required_fields lists the keys
KeyOrder ==
    <<K_date_value, K_store_name_value, K_tax_value, K_total_value,
      K_prod_item_value, K_prod_quantity_value, K_prod_price_value>>

\* default_json / required_fields
default_json ==
    PDict([k \in CanonicalKeys |->
              IF k \in ScalarFields THEN PStr(<<>>) ELSE PList(<<>>)])

\* r'"([^"]+)":\s*"([^"]*?)(?:",|$|\n)' with re.MULTILINE
simple_pattern ==
    <<Ch({Q}), Open(1), NotCh({Q}), NotStar({Q}), Close(1), Ch({Q}), Ch({":"}),
      Star(SpaceCh), Ch({Q}), Open(2), NotStarLazy({Q}), Close(2),
      Alt(<<Lit(<<Q, ",">>), <<Eol(TRUE)>>, Lit(<<"\n">>)>>)>>

\* r'[^\w\s/.-]'
value_junk == <<NotCh(WordCh \cup SpaceCh \cup {"/", ".", "-"})>>

\* r'"prod_item_value":\s*\[(.*?)(?:\]|$)' with re.DOTALL
array_pattern ==
    Lit(<<Q>> \o K_prod_item_value \o <<Q, ":">>)
    \o <<Star(SpaceCh), Ch({"["}), Open(1), AnyStarLazy, Close(1),
         Alt(<<Lit(<<"]">>), <<Eol(FALSE)>>>>)>>

\* r'"([^"]*?)"'
item_pattern == <<Ch({Q}), Open(1), NotStarLazy({Q}), Close(1), Ch({Q})>>

RECURSIVE SimpleFields(_, _, _)
\* the loop over the (field, value) matches of simple_pattern
SimpleFields(text, ms, data) ==
    IF ms = <<>> THEN data
    ELSE LET field == Group(text, Head(ms), 1)
             value == Group(text, Head(ms), 2)
             cleaned_value == Strip(Sub(value_junk, <<>>, value))
         IN SimpleFields(text, Tail(ms),
                IF field \in ScalarFields
                THEN Put(data, field, PStr(cleaned_value)) ELSE data)

RECURSIVE CleanItems(_, _)
\* item.rstrip(',').strip() of every item, the empty results dropped
CleanItems(content, ms) ==
    IF ms = <<>> THEN <<>>
    ELSE LET cleaned_item == Strip(RStripComma(Group(content, Head(ms), 1)))
         IN (IF cleaned_item # <<>> THEN <<PStr(cleaned_item)>> ELSE <<>>)
            \o CleanItems(content, Tail(ms))

\* the array part with the item names alone
ArrayFieldsOf_items_only(text, data) ==
    LET array_match == Search(array_pattern, text)
    IN IF ~array_match.ok THEN data
       ELSE Put(data, K_prod_item_value,
                PList(CleanItems(Group(text, array_match, 1),
                                 FindAll(item_pattern, Group(text, array_match, 1)))))

\* the array part of _reconstruct_malformed_json
ArrayFieldsOf(text, data) ==
    LET array_match == Search(array_pattern, text)
    IN IF ~array_match.ok THEN data
       ELSE LET array_content == Group(text, array_match, 1)
                items == FindAll(item_pattern, array_content)
                cleaned_items == CleanItems(array_content, items)
                n == Len(cleaned_items)
            IN IF items = <<>> THEN data
               ELSE Put(Put(Put(data,
                        K_prod_item_value, PList(cleaned_items)),
                        K_prod_quantity_value, PList([i \in 1..n |-> PStr(<<"1">>)])),
                        K_prod_price_value,
                        PList([i \in 1..n |-> PStr(<<"0", ".", "0", "0">>)]))

\* the record without the fill of the missing fields
FillRequired_skipped(data, fields) == data

RECURSIVE FillRequired(_, _)
\* "for field, default in required_fields.items(): if field not in data"
FillRequired(data, fields) ==
    IF fields = <<>> THEN data
    ELSE FillRequired(IF Head(fields) \in DOMAIN data.d.v THEN data
                      ELSE Put(data, Head(fields), default_json.v[Head(fields)]),
                      Tail(fields))

\* _reconstruct_malformed_json(text): the JSON text of the rebuilt record
_reconstruct_malformed_json(text) ==
    LET scalars == SimpleFields(text, FindAll(simple_pattern, text), NewDict)
        data == FillRequired(ArrayFieldsOf(text, scalars), KeyOrder)
    IN JsonDumps(data)

\* step 1 of _ultra_clean_json: control characters become spaces
SanitizeCh(c) ==
    IF c \in CtrlBelow32 THEN (IF c \in {"\t", "\n", "\r"} THEN c ELSE " ")
    ELSE IF c = "DEL" THEN " "
    ELSE c

\* the text after step 1
Sanitized(text) == [i \in 1..Len(text) |-> SanitizeCh(text[i])]

Sp == Star(SpaceCh)

\* the re.sub steps of _ultra_clean_json, in order
ultra_steps ==
    <<
      \* r'"([^"]*?),\s*\n\s*"([a-z_])'  ->  r'"\1",\n"\2'
      [pat |-> <<Ch({Q}), Open(1), NotStarLazy({Q}), Close(1), Ch({","}), Sp, Ch({"\n"}),
               Sp, Ch({Q}), Open(2), Ch(Lower \cup {"_"}), Close(2)>>,
       rep |-> <<L(<<Q>>), G(1), L(<<Q, ",", "\n", Q>>), G(2)>>],
      \* r'"([^"]*?),\s*\n\s*}'  ->  r'"\1"\n}'
      [pat |-> <<Ch({Q}), Open(1), NotStarLazy({Q}), Close(1), Ch({","}), Sp, Ch({"\n"}),
               Sp, Ch({"}"})>>,
       rep |-> <<L(<<Q>>), G(1), L(<<Q, "\n", "}">>)>>],
      \* r'"([^"]*?),\s*\n\s*\]'  ->  r'"\1"\n]'
      [pat |-> <<Ch({Q}), Open(1), NotStarLazy({Q}), Close(1), Ch({","}), Sp, Ch({"\n"}),
               Sp, Ch({"]"})>>,
       rep |-> <<L(<<Q>>), G(1), L(<<Q, "\n", "]">>)>>],
      \* r'"([^"]*?),\s*\n\s*"([A-Z])'  ->  r'"\1",\n"\2'
      [pat |-> <<Ch({Q}), Open(1), NotStarLazy({Q}), Close(1), Ch({","}), Sp, Ch({"\n"}),
               Sp, Ch({Q}), Open(2), Ch(Upper), Close(2)>>,
       rep |-> <<L(<<Q>>), G(1), L(<<Q, ",", "\n", Q>>), G(2)>>],
      \* r':\s*"([^"]*?)\s*\n\s*"\s*([,\n}])'  ->  r': "\1"\2'
      [pat |-> <<Ch({":"}), Sp, Ch({Q}), Open(1), NotStarLazy({Q}), Close(1), Sp,
               Ch({"\n"}), Sp, Ch({Q}), Sp, Open(2), Ch({",", "\n", "}"}), Close(2)>>,
       rep |-> <<L(<<":", " ", Q>>), G(1), L(<<Q>>), G(2)>>],
      \* r'",\s*\n\s*([a-zA-Z_][^"]*?):'  ->  r'",\n  "\1":'
      [pat |-> <<Ch({Q}), Ch({","}), Sp, Ch({"\n"}), Sp, Open(1),
               Ch(Lower \cup Upper \cup {"_"}), NotStarLazy({Q}), Close(1), Ch({":"})>>,
       rep |-> <<L(<<Q, ",", "\n", " ", " ", Q>>), G(1), L(<<Q, ":">>)>>],
      \* r',\s*\n\s*([}\]])'  ->  r'\n\1'
      [pat |-> <<Ch({","}), Sp, Ch({"\n"}), Sp, Open(1), Ch({"}", "]"}), Close(1)>>,
       rep |-> <<L(<<"\n">>), G(1)>>],
      \* r',(\s*[}\]])'  ->  r'\1'
      [pat |-> <<Ch({","}), Open(1), Sp, Ch({"}", "]"}), Close(1)>>,
       rep |-> <<G(1)>>],
      \* r' +'  ->  ' '
      [pat |-> <<Ch({" "}), Star({" "})>>,
       rep |-> <<L(<<" ">>)>>]
    >>

RECURSIVE SubSteps(_, _, _, _)
\* the re.sub steps n..last of steps, applied to text one after the other
SubSteps(steps, n, last, text) ==
    IF n > last THEN text
    ELSE SubSteps(steps, n + 1, last, Sub(steps[n].pat, steps[n].rep, text))

\* "if text.count(open) > text.count(close): text += close"
CloseUnbalanced(text, open, close) ==
    IF Count(text, open) > Count(text, close) THEN Append(text, close) ELSE text

\* _ultra_clean_json(text)
_ultra_clean_json(text) ==
    CloseUnbalanced(
        CloseUnbalanced(
            SubSteps(ultra_steps, 1, 9, Sanitized(text)),
            "{", "}"),
        "[", "]")

None == PLit("null")

IsNone(x) == x.t = "lit" /\ x.v = "null"

\* the value of the parse r, or other when json.loads raised
ParsedOr(r, other) == IF r.ok THEN r.v ELSE other

\* result unless it is None, else other
NotNoneOr(result, other) == IF ~IsNone(result) THEN result ELSE other

\* _try_parse_with_cleaning(json_text): the parsed value, or None
_try_parse_with_cleaning(json_text) ==
    ParsedOr(JsonLoads(json_text),
             ParsedOr(JsonLoads(_ultra_clean_json(json_text)), None))

\* r"```(?:json)?(.*?)```" with re.DOTALL
fence_pattern ==
    Lit(<<"BQ", "BQ", "BQ">>)
    \o <<Alt(<<Lit(<<"j", "s", "o", "n">>), <<>>>>), Open(1), AnyStarLazy, Close(1)>>
    \o Lit(<<"BQ", "BQ", "BQ">>)

\* r"({[\s\S]*?})"
brace_pattern == <<Open(1), Ch({"{"}), AnyStarLazy, Ch({"}"}), Close(1)>>

\* re.findall for a pattern with one group
GroupsOf(s, ms, k) == [i \in 1..Len(ms) |-> Group(s, ms[i], k)]

Groups1(p, s) == GroupsOf(s, FindAll(p, s), 1)

RECURSIVE InsertByLen(_, _)
InsertByLen(x, sorted) ==
    IF sorted = <<>> THEN <<x>>
    ELSE IF Len(x) > Len(Head(sorted)) THEN <<x>> \o sorted
    ELSE <<Head(sorted)>> \o InsertByLen(x, Tail(sorted))

RECURSIVE SortLongestFirst(_)
\* list.sort(key=len, reverse=True): stable, equal lengths keep their order
SortLongestFirst(xs) ==
    IF xs = <<>> THEN <<>>
    ELSE LET n == Len(xs)
         IN InsertByLen(xs[n], SortLongestFirst(SubSeq(xs, 1, n - 1)))

RECURSIVE FirstParsed(_)
\* the candidate loop: the first candidate that _try_parse_with_cleaning parses
FirstParsed(cands) ==
    IF cands = <<>> THEN None
    ELSE NotNoneOr(_try_parse_with_cleaning(Head(cands)), FirstParsed(Tail(cands)))

StripAll(xs) == [i \in 1..Len(xs) |-> Strip(xs[i])]

\* the fenced blocks, longest first, stripped
FencedCandidates(text) == StripAll(SortLongestFirst(Groups1(fence_pattern, text)))

BraceCandidates(text) == Groups1(brace_pattern, text)

\* lines 54-82 of extract_json_from_text: fenced blocks, then brace spans,
\* then default_json
CandidateSearch(text) ==
    NotNoneOr(FirstParsed(FencedCandidates(text)),
              NotNoneOr(FirstParsed(BraceCandidates(text)), default_json))

\* "if reconstructed: json.loads(reconstructed)"
LoadsIfAny(reconstructed) ==
    IF reconstructed = <<>> THEN Fail ELSE JsonLoads(reconstructed)

\* lines 46-82: the parsed reconstruction is returned, and the candidates are
\* searched when there is none
AfterReconstruction(text, result) ==
    IF result.ok
    THEN [v |-> result.v, stages |-> <<"_reconstruct_malformed_json">>]
    ELSE [v |-> CandidateSearch(text),
          stages |-> <<"_reconstruct_malformed_json", "candidates">>]

\* extract_json_from_text(text) of json_extraction_fixed.py: v is the value it
\* returns, stages the stages it ran, in the order it ran them
ExtractRun(text) ==
    IF text = <<>> THEN [v |-> default_json, stages |-> <<>>]
    ELSE AfterReconstruction(text, LoadsIfAny(_reconstruct_malformed_json(text)))

extract_json_from_text(text) == ExtractRun(text).v

(***************************************************************************)
(* internvl/extraction/normalization.py: the field normalizers             *)
(*   a call ends with a value, [raised |-> FALSE, v |-> value], or with an *)
(*   exception that reaches the caller, [raised |-> TRUE, v |-> name]      *)
(***************************************************************************)
Return(x) == [raised |-> FALSE, v |-> x]
Raise(name) == [raised |-> TRUE, v |-> name]

LowerSeq == <<"a", "b", "c", "d", "e", "f", "g", "h", "i", "j", "k", "l", "m", "n", "o", "p", "q", "r", "s", "t", "u", "v", "w", "x", "y", "z">>
UpperSeq == <<"A", "B", "C", "D", "E", "F", "G", "H", "I", "J", "K", "L", "M", "N", "O", "P", "Q", "R", "S", "T", "U", "V", "W", "X", "Y", "Z">>
DigitSeq == <<"0", "1", "2", "3", "4", "5", "6", "7", "8", "9">>

IndexOf(seq, c) == CHOOSE i \in 1..Len(seq) : seq[i] = c

\* str.lower() and str.upper()
ToLower(s) ==
    [i \in 1..Len(s) |-> IF s[i] \in Upper THEN LowerSeq[IndexOf(UpperSeq, s[i])] ELSE s[i]]
ToUpper(s) ==
    [i \in 1..Len(s) |-> IF s[i] \in Lower THEN UpperSeq[IndexOf(LowerSeq, s[i])] ELSE s[i]]

MonthNames ==
    {<<"j", "a", "n">>, <<"f", "e", "b">>, <<"m", "a", "r">>, <<"a", "p", "r">>,
     <<"m", "a", "y">>, <<"j", "u", "n">>, <<"j", "u", "l">>, <<"a", "u", "g">>,
     <<"s", "e", "p">>, <<"o", "c", "t">>, <<"n", "o", "v">>, <<"d", "e", "c">>}

\* s.split(" ")[0]
FirstToken(s) == SubSeq(s, 1, RunLen(NotCh({" "}), s, 1))

\* the decimal digits of n, at least w of them (zero padded)
RECURSIVE Digits(_, _)
Digits(n, w) ==
    IF n < 10 /\ w <= 1 THEN <<DigitSeq[n + 1]>>
    ELSE Append(Digits(n \div 10, w - 1), DigitSeq[(n % 10) + 1])

\* parsed_date.strftime("%d/%m/%Y")
strftime(date) ==
    Digits(date.d, 2) \o <<"/">> \o Digits(date.m, 2) \o <<"/">> \o Digits(date.y, 4)

\* dateparser.parse(date_str) is a library call, not code of the repository:
\* its outcome o is an input of the model, one of
\*   [k |-> "none"], [k |-> "raise"], [k |-> "date", d, m, y];
\* a text without a letter or digit holds no date and gives None
ParsedNone == [k |-> "none"]
dateparser_parse(date_str, o) ==
    IF \A i \in 1..Len(date_str) : date_str[i] \notin WordCh \ {"_"}
    THEN ParsedNone ELSE o

\* normalize_date without its try/except
normalize_date_unguarded(date_str, o) ==
    LET cut == /\ Contains(date_str, <<" ">>)
               /\ ~\E x \in MonthNames : Contains(ToLower(date_str), x)
        date_str2 == IF cut THEN FirstToken(date_str) ELSE date_str
        parsed_date == dateparser_parse(date_str2, o)
    IN IF parsed_date.k = "raise" THEN Raise("Exception")
       ELSE IF parsed_date.k = "date" THEN Return(strftime(parsed_date))
       ELSE Return(date_str2)

\* normalize_date(date_str): the date_str returned on failure is the one cut
\* at the first space
normalize_date(date_str, o) ==
    LET cut == /\ Contains(date_str, <<" ">>)
               /\ ~\E x \in MonthNames : Contains(ToLower(date_str), x)
        date_str2 == IF cut THEN FirstToken(date_str) ELSE date_str
        parsed_date == dateparser_parse(date_str2, o)
    IN IF parsed_date.k = "raise" THEN Return(date_str2)
       ELSE IF parsed_date.k = "date" THEN Return(strftime(parsed_date))
       ELSE Return(date_str2)

\* normalize_store_name without the strip()
normalize_store_name_unstripped(name_str) ==
    IF name_str = <<>> THEN Return(<<>>) ELSE Return(ToUpper(name_str))

\* normalize_store_name(name_str)
normalize_store_name(name_str) ==
    IF name_str = <<>> THEN Return(<<>>) ELSE Return(Strip(ToUpper(name_str)))

\* r"([\d,.]+)"
number_pattern ==
    <<Open(1), Ch(Digit \cup {",", "."}), Star(Digit \cup {",", "."}), Close(1)>>

\* the value of a digit string (0 for the empty string)
RECURSIVE IntOf(_)
IntOf(ds) ==
    IF ds = <<>> THEN 0
    ELSE 10 * IntOf(SubSeq(ds, 1, Len(ds) - 1)) + (IndexOf(DigitSeq, ds[Len(ds)]) - 1)

AllZero(ds) == \A i \in 1..Len(ds) : ds[i] = "0"

\* f"{float(number_str):.2f}" for number_str = ip "." fp (digit strings, not
\* both empty).  The double nearest to the decimal is rounded to two places:
\* above or below the half the result is that of the decimal; on a decimal
\* tie the double is exact for .125 .375 .625 .875 (round half to even) and
\* otherwise lies a little above or below the tie, which the model takes
\* from the input tieUp.  (Digit strings short enough for a double to tell
\* the decimal from its neighbours, as all strings of the model are.)
format_2f(ip, fp, tieUp) ==
    LET f == fp \o <<"0", "0", "0">>
        hundredths == IntOf(ip) * 100 + IntOf(SubSeq(f, 1, 2))
        third == IndexOf(DigitSeq, f[3]) - 1
        tail == SubSeq(f, 4, Len(f))
        exactTie == third = 5 /\ AllZero(tail)
        dyadic == SubSeq(f, 1, 2) \in {<<"1", "2">>, <<"3", "7">>, <<"6", "2">>, <<"8", "7">>}
        up == IF exactTie
              THEN (IF dyadic THEN hundredths % 2 = 1 ELSE tieUp)
              ELSE third >= 5
        n == IF up THEN hundredths + 1 ELSE hundredths
    IN Digits(n \div 100, 1) \o <<".">> \o Digits(n % 100, 2)

\* lines 119-125: comma to period, then only the first period is kept
OnePeriod(number_str) ==
    LET dotted == [i \in 1..Len(number_str) |->
                      IF number_str[i] = "," THEN "." ELSE number_str[i]]
        first == RunLen(NotCh({"."}), dotted, 1) + 1
    IN IF first > Len(dotted) THEN dotted
       ELSE SubSeq(dotted, 1, first)
            \o SelectSeq(SubSeq(dotted, first + 1, Len(dotted)), LAMBDA ch : ch # ".")

\* FormattedParts that writes the amount in cents, without the decimal point
FormattedParts_cents(value_str, tieUp, ip, fp) ==
    IF ip = <<>> /\ fp = <<>> THEN Return(value_str)
    ELSE Return(SelectSeq(format_2f(ip, fp, tieUp), LAMBDA ch : ch # "."))

\* f"{float(number_str):.2f}" for the integer part ip and the fraction fp of
\* number_str, or value_str when float() raises
FormattedParts(value_str, tieUp, ip, fp) ==
    IF ip = <<>> /\ fp = <<>> THEN Return(value_str)
    ELSE Return(format_2f(ip, fp, tieUp))

\* number_str with its period (if any) at position dot
FormattedAt(value_str, tieUp, number_str, dot) ==
    FormattedParts(value_str, tieUp, SubSeq(number_str, 1, dot - 1),
                   SubSeq(number_str, dot + 1, Len(number_str)))

FormattedNumber(value_str, tieUp, number_str) ==
    FormattedAt(value_str, tieUp, number_str, RunLen(NotCh({"."}), number_str, 1) + 1)

\* lines 115-132: the match of number_pattern, formatted
FormattedMatch(value_str, tieUp, matches) ==
    IF ~matches.ok THEN Return(value_str)
    ELSE FormattedNumber(value_str, tieUp, OnePeriod(Group(value_str, matches, 1)))

\* lines 110-132 of normalize_number: a value_str that is not empty; float()
\* raises ValueError when number_str holds no digit, and the original value
\* is returned
NumberOf(value_str, tieUp) ==
    FormattedMatch(value_str, tieUp, Search(number_pattern, value_str))

\* normalize_number that formats a missing value as zero
normalize_number_zero(value_str, tieUp) ==
    IF value_str = <<>> THEN Return(<<"0", ".", "0", "0">>)
    ELSE NumberOf(value_str, tieUp)

\* normalize_number(value_str)
normalize_number(value_str, tieUp) ==
    IF value_str = <<>> THEN Return(<<>>)
    ELSE NumberOf(value_str, tieUp)

(***************************************************************************)
(* internvl/extraction/json_extraction.py (exported by the package)        *)
(***************************************************************************)
SpLazy == StarLazy(SpaceCh)
Letter_ == Lower \cup Upper \cup {"_"}
NotValueEnd == {",", "\n", "}"}

\* the re.sub steps of _clean_and_fix_json, in order (the tenth step is a
\* str.replace, and the last is the eighth step of _ultra_clean_json)
clean_steps ==
    <<
      \* r'",\s*\n\s*",\s*\n'  ->  '",\n'
      [pat |-> <<Ch({Q}), Ch({","}), Sp, Ch({"\n"}), Sp, Ch({Q}), Ch({","}), Sp, Ch({"\n"})>>,
       rep |-> <<L(<<Q, ",", "\n">>)>>],
      \* r'\n\s*",\s*\n'  ->  ',\n'
      [pat |-> <<Ch({"\n"}), Sp, Ch({Q}), Ch({","}), Sp, Ch({"\n"})>>,
       rep |-> <<L(<<",", "\n">>)>>],
      \* r'\n\s*,\s*\n'  ->  '\n'
      [pat |-> <<Ch({"\n"}), Sp, Ch({","}), Sp, Ch({"\n"})>>,
       rep |-> <<L(<<"\n">>)>>],
      \* r':\s*"([^"]*?)\s*\n\s*"\s*,?\s*\n'  ->  r': "\1",\n'
      [pat |-> <<Ch({":"}), Sp, Ch({Q}), Open(1), NotStarLazy({Q}), Close(1), Sp, Ch({"\n"}),
               Sp, Ch({Q}), Sp, Alt(<<Lit(<<",">>), <<>>>>), Sp, Ch({"\n"})>>,
       rep |-> <<L(<<":", " ", Q>>), G(1), L(<<Q, ",", "\n">>)>>],
      \* r':\s*"([^"]*?)\s*\n\s*"\s*\n\s*}'  ->  r': "\1"\n}'
      [pat |-> <<Ch({":"}), Sp, Ch({Q}), Open(1), NotStarLazy({Q}), Close(1), Sp, Ch({"\n"}),
               Sp, Ch({Q}), Sp, Ch({"\n"}), Sp, Ch({"}"})>>,
       rep |-> <<L(<<":", " ", Q>>), G(1), L(<<Q, "\n", "}">>)>>],
      \* r'"\s*\n\s*"([^"]+)":'  ->  r'",\n  "\1":'
      [pat |-> <<Ch({Q}), Sp, Ch({"\n"}), Sp, Ch({Q}), Open(1), NotCh({Q}), NotStar({Q}),
               Close(1), Ch({Q}), Ch({":"})>>,
       rep |-> <<L(<<Q, ",", "\n", " ", " ", Q>>), G(1), L(<<Q, ":">>)>>],
      \* r'(\d+|\w+)\s*\n\s*"([^"]+)":'  ->  r'\1,\n  "\2":'
      [pat |-> <<Open(1), Alt(<<<<Ch(Digit), Star(Digit)>>, <<Ch(WordCh), Star(WordCh)>>>>),
               Close(1), Sp, Ch({"\n"}), Sp, Ch({Q}), Open(2), NotCh({Q}), NotStar({Q}),
               Close(2), Ch({Q}), Ch({":"})>>,
       rep |-> <<G(1), L(<<",", "\n", " ", " ", Q>>), G(2), L(<<Q, ":">>)>>],
      \* r'"([^"]+)":\s*"([^"]*\n[^"]*)"'  ->  fix_newlines_in_quoted_strings
      [pat |-> <<Ch({Q}), Open(1), NotCh({Q}), NotStar({Q}), Close(1), Ch({Q}), Ch({":"}), Sp,
               Ch({Q}), Open(2), NotStar({Q}), Ch({"\n"}), NotStar({Q}), Close(2), Ch({Q})>>,
       rep |-> <<L(<<Q>>), G(1), L(<<Q, ":", " ", Q>>), GE(2), L(<<Q>>)>>],
      \* r'("address":\s*"[^"]*?)\n\s*([^",\n}]+?)\n\s*([^",\n}]+?)"'  ->  the lambda
      [pat |-> <<Open(1)>> \o Lit(<<"\"", "a", "d", "d", "r", "e", "s", "s", "\"", ":">>)
               \o <<Sp, Ch({Q}), NotStarLazy({Q}), Close(1), Ch({"\n"}), Sp,
               Open(2), NotCh({Q} \cup NotValueEnd), NotStarLazy({Q} \cup NotValueEnd), Close(2),
               Ch({"\n"}), Sp,
               Open(3), NotCh({Q} \cup NotValueEnd), NotStarLazy({Q} \cup NotValueEnd), Close(3),
               Ch({Q})>>,
       rep |-> <<G(1), L(<<"\\", "n">>), GS(2), L(<<"\\", "n">>), GS(3), L(<<Q>>)>>],
      \* r'(\s*?)([a-zA-Z_][a-zA-Z0-9_]*)(\s*?):'  ->  r'\1"\2"\3:'
      [pat |-> <<Open(1), SpLazy, Close(1), Open(2), Ch(Letter_), Star(WordCh), Close(2),
               Open(3), SpLazy, Close(3), Ch({":"})>>,
       rep |-> <<G(1), L(<<Q>>), G(2), L(<<Q>>), G(3), L(<<":">>)>>]
    >>

\* "".join(char if char in string.printable else " " for char in text)
PrintableOnly(text) ==
    [i \in 1..Len(text) |-> IF text[i] \in Printable THEN text[i] ELSE " "]

\* _is_valid_json_structure(text)
_is_valid_json_structure(text) == JsonLoads(text).ok

\* expected_fields of _reconstruct_json, in order
expected_fields ==
    <<<<"c", "o", "m", "p", "a", "n", "y", "_", "n", "a", "m", "e">>, <<"a", "d", "d", "r", "e", "s", "s">>, <<"p", "h", "o", "n", "e", "_", "n", "u", "m", "b", "e", "r">>, <<"d", "a", "t", "e">>, <<"A", "B", "N">>, <<"t", "o", "t", "a", "l", "_", "a", "m", "o", "u", "n", "t">>>>

\* key_mappings of _reconstruct_json, in order
key_mappings ==
    <<<<<<"c", "o", "m", "p", "a", "n", "y">>, <<"c", "o", "m", "p", "a", "n", "y", "_", "n", "a", "m", "e">>>>, <<<<"s", "t", "o", "r", "e">>, <<"c", "o", "m", "p", "a", "n", "y", "_", "n", "a", "m", "e">>>>,
      <<<<"b", "u", "s", "i", "n", "e", "s", "s">>, <<"c", "o", "m", "p", "a", "n", "y", "_", "n", "a", "m", "e">>>>, <<<<"p", "h", "o", "n", "e">>, <<"p", "h", "o", "n", "e", "_", "n", "u", "m", "b", "e", "r">>>>,
      <<<<"t", "e", "l">>, <<"p", "h", "o", "n", "e", "_", "n", "u", "m", "b", "e", "r">>>>, <<<<"t", "e", "l", "e", "p", "h", "o", "n", "e">>, <<"p", "h", "o", "n", "e", "_", "n", "u", "m", "b", "e", "r">>>>,
      <<<<"t", "o", "t", "a", "l">>, <<"t", "o", "t", "a", "l", "_", "a", "m", "o", "u", "n", "t">>>>, <<<<"a", "m", "o", "u", "n", "t">>, <<"t", "o", "t", "a", "l", "_", "a", "m", "o", "u", "n", "t">>>>,
      <<<<"p", "r", "i", "c", "e">>, <<"t", "o", "t", "a", "l", "_", "a", "m", "o", "u", "n", "t">>>>>>

\* r'"([^"]+)"\s*:\s*"([^"]*)"', r'"([^"]+)"\s*:\s*([^,\n}]+)',
\* r'([a-zA-Z_]+)\s*:\s*"([^"]*)"', r'([a-zA-Z_]+)\s*:\s*([^,\n}]+)'
reconstruct_patterns ==
    << <<Ch({Q}), Open(1), NotCh({Q}), NotStar({Q}), Close(1), Ch({Q}), Sp, Ch({":"}), Sp,
         Ch({Q}), Open(2), NotStar({Q}), Close(2), Ch({Q})>>,
       <<Ch({Q}), Open(1), NotCh({Q}), NotStar({Q}), Close(1), Ch({Q}), Sp, Ch({":"}), Sp,
         Open(2), NotCh(NotValueEnd), NotStar(NotValueEnd), Close(2)>>,
       <<Open(1), Ch(Letter_), Star(Letter_), Close(1), Sp, Ch({":"}), Sp,
         Ch({Q}), Open(2), NotStar({Q}), Close(2), Ch({Q})>>,
       <<Open(1), Ch(Letter_), Star(Letter_), Close(1), Sp, Ch({":"}), Sp,
         Open(2), NotCh(NotValueEnd), NotStar(NotValueEnd), Close(2)>> >>

\* "for variant, standard in key_mappings.items(): if variant in key"
MapKey(key) ==
    LET hits == {i \in 1..Len(key_mappings) : Contains(key, key_mappings[i][1])}
    IN IF hits = {} THEN key
       ELSE key_mappings[CHOOSE i \in hits : \A j \in hits : i <= j][2]

\* r'["\']\s*$' and r'\s*\n.*$' (re.DOTALL)
trailing_quote == <<Ch({Q, "'"}), Sp, Eol(FALSE)>>
from_newline == <<Sp, Ch({"\n"}), NotStar({}), Eol(FALSE)>>

\* lines 191-219: the key and the value of one match, cleaned
CleanKey(key) == MapKey(ReplaceCh(ToLower(Strip(key)), " ", <<"_">>))
CleanValue(value) ==
    Strip(Sub(from_newline, <<>>, Sub(trailing_quote, <<>>, Strip(value))))

\* "if clean_key in expected_fields and clean_value:
\*      extracted_pairs[clean_key] = clean_value"
WithPair(pairs, key, value) ==
    IF value # <<>> /\ \E i \in 1..Len(expected_fields) : expected_fields[i] = key
    THEN [x \in DOMAIN pairs \cup {key} |-> IF x = key THEN value ELSE pairs[x]]
    ELSE pairs

RECURSIVE ExtractPairs(_, _, _)
\* the loop over the matches of one pattern
ExtractPairs(text, ms, pairs) ==
    IF ms = <<>> THEN pairs
    ELSE ExtractPairs(text, Tail(ms),
             WithPair(pairs, CleanKey(Group(text, Head(ms), 1)),
                      CleanValue(Group(text, Head(ms), 2))))

RECURSIVE AllPairs(_, _, _)
\* the loop over the patterns
AllPairs(text, ps, pairs) ==
    IF ps = <<>> THEN pairs
    ELSE AllPairs(text, Tail(ps), ExtractPairs(text, FindAll(Head(ps), text), pairs))

StripZerosLeft(ds) ==
    LET n == RunLen(Ch({"0"}), ds, 1) IN SubSeq(ds, n + 1, Len(ds))
StripZerosRight(ds) ==
    LET keep == {i \in 1..Len(ds) : ds[i] # "0"}
    IN IF keep = {} THEN <<>> ELSE SubSeq(ds, 1, CHOOSE i \in keep : \A j \in keep : i >= j)

\* str(float(ip "." fp)) for digit strings ip, fp of at most 15 digits in all:
\* the shortest text that reads back as the same double
float_repr(ip, fp) ==
    LET i == StripZerosLeft(ip)
        f == StripZerosRight(fp)
        lead == RunLen(Ch({"0"}), f, 1)
        sig == SubSeq(f, lead + 1, Len(f))
    IN IF i = <<>> /\ f # <<>> /\ lead >= 4
       THEN <<sig[1]>> \o (IF Len(sig) > 1 THEN <<".">> \o Tail(sig) ELSE <<>>)
            \o <<"e", "-">> \o Digits(lead + 1, 2)
       ELSE (IF i = <<>> THEN <<"0">> ELSE i) \o <<".">> \o (IF f = <<>> THEN <<"0">> ELSE f)

IsDigits(s) == s # <<>> /\ \A i \in 1..Len(s) : s[i] \in Digit

Without(s, chars) == SelectSeq(s, LAMBDA ch : ch \notin chars)

\* lines 233-245: the text written for one value; float() raises ValueError
\* for a value with two periods
FormatValue(value) ==
    IF IsDigits(Without(value, {".", "$", ","}))
    THEN LET v == Without(value, {"$", ","})
             dot == RunLen(NotCh({"."}), v, 1) + 1
         IN IF ~Contains(v, <<".">>)
            THEN Return(IF StripZerosLeft(v) = <<>> THEN <<"0">> ELSE StripZerosLeft(v))
            ELSE IF Count(v, ".") > 1 THEN Raise("ValueError")
            ELSE Return(float_repr(SubSeq(v, 1, dot - 1), SubSeq(v, dot + 1, Len(v))))
    ELSE LET v == EscapeNewlines(value)
         IN Return(IF v[1] = Q THEN v ELSE <<Q>> \o v \o <<Q>>)

RECURSIVE WriteFields(_, _, _, _)
RECURSIVE WriteField(_, _, _, _, _)
\* the loop that writes '  "field": value,\n' for every extracted field
WriteFields(fields, pairs, pairs_added, acc) ==
    IF fields = <<>> THEN Return(acc \o <<"}">>)
    ELSE IF Head(fields) \notin DOMAIN pairs
         THEN WriteFields(Tail(fields), pairs, pairs_added, acc)
    ELSE WriteField(fields, pairs, pairs_added, acc, FormatValue(pairs[Head(fields)]))

\* the line of the first of fields, whose formatted value is value
WriteField(fields, pairs, pairs_added, acc, value) ==
    IF value.raised THEN value
    ELSE WriteFields(Tail(fields), pairs, pairs_added + 1,
             acc \o <<" ", " ", Q>> \o Head(fields) \o <<Q, ":", " ">> \o value.v
                 \o (IF pairs_added < Cardinality(DOMAIN pairs) - 1 THEN <<",">> ELSE <<>>)
                 \o <<"\n">>)

\* _reconstruct_json(malformed_json)
_reconstruct_json(malformed_json) ==
    WriteFields(expected_fields, AllPairs(malformed_json, reconstruct_patterns, <<>>),
                0, <<"{", "\n">>)

\* lines 88-142 of _clean_and_fix_json: the text stripped, its unprintable
\* characters made spaces, and the substitutions in their order
CleanedText(json_text) ==
    SubSteps(ultra_steps, 8, 8,
        SubSteps(clean_steps, 10, 10,
            ReplaceCh(SubSteps(clean_steps, 1, 9, PrintableOnly(Strip(json_text))),
                      "'", <<Q>>)))

\* lines 144-148: the cleaned text if it is valid JSON, else its reconstruction
ValidOrReconstructed(cleaned) ==
    IF _is_valid_json_structure(cleaned) THEN Return(cleaned)
    ELSE _reconstruct_json(cleaned)

\* _clean_and_fix_json(json_text)
_clean_and_fix_json(json_text) == ValidOrReconstructed(CleanedText(json_text))

RECURSIVE FirstCleanParsed(_)
RECURSIVE CleanedOrNext(_, _)
RECURSIVE LoadedOrNext(_, _)
\* a candidate loop of json_extraction.py: [found, raised, v]
FirstCleanParsed(cands) ==
    IF cands = <<>> THEN [found |-> FALSE, raised |-> FALSE]
    ELSE CleanedOrNext(_clean_and_fix_json(Head(cands)), Tail(cands))

\* the candidate has been cleaned: json.loads of it
CleanedOrNext(cleaned_json, rest) ==
    IF cleaned_json.raised THEN [found |-> FALSE, raised |-> TRUE]
    ELSE LoadedOrNext(JsonLoads(cleaned_json.v), rest)

\* the parsed candidate is returned; json.JSONDecodeError: the next candidate
LoadedOrNext(result, rest) ==
    IF result.ok THEN [found |-> TRUE, raised |-> FALSE, v |-> result.v]
    ELSE FirstCleanParsed(rest)

\* the outcome of the loop over the fenced blocks, then of the loop over the
\* brace spans, then default_json
LegacyResult(fenced, braced) ==
    IF fenced.found THEN fenced.v
    ELSE IF fenced.raised THEN default_json
    ELSE IF braced.found THEN braced.v
    ELSE default_json

\* extract_json_from_text(text) of json_extraction.py; an exception of the
\* cleaning is caught by "except Exception" and default_json is returned
legacy_extract_json_from_text(text) ==
    IF text = <<>> THEN default_json
    ELSE LegacyResult(FirstCleanParsed(FencedCandidates(text)),
                      FirstCleanParsed(BraceCandidates(text)))

(***************************************************************************)
(* internvl/extraction/normalization.py: post processing and retry         *)
(***************************************************************************)

ErrorSentinel == PDict(K_error :> PStr(<<"C", "o", "u", "l", "d", " ", "n", "o", "t", " ", "e", "x", "t", "r", "a", "c", "t", " ", "v", "a", "l", "i", "d", " ", "J", "S", "O", "N">>))

\* a confidence is a float in [0, 1], kept in hundredths
PFloat(hundredths) == [t |-> "float", v |-> hundredths]

\* internvl/extraction/confidence.py: the scorer is a pluggable policy; the
\* score it gives a record is an input of the model
calculate_confidence_score(prediction, score) ==
    <<PFloat(score), EmptyDict>>

get_confidence_summary(confidence, components) ==
    PStr(<<"C", "o", "n", "f", "i", "d", "e", "n", "c", "e", ":", " ">> \o Digits(confidence.v \div 100, 1) \o <<".">>
         \o Digits(confidence.v % 100, 2))

\* the retry policy: reprocess when the confidence is below the threshold
should_reprocess_prediction(confidence, threshold) == confidence < threshold

TrueWords == {<<"t", "r", "u", "e">>, <<"y", "e", "s">>, <<"1">>, <<"y">>}

\* _is_confidence_scoring_enabled that does not look at CONFIDENCE_AVAILABLE
_is_confidence_scoring_enabled_unchecked(override, env) ==
    IF override # "None" THEN override = "True"
    ELSE ToLower(env.scoring) \in {<<"t", "r", "u", "e">>, <<"y", "e", "s">>, <<"1">>, <<"y">>}

\* _is_confidence_scoring_enabled(override); env.scoring is the value of
\* INTERNVL_ENABLE_CONFIDENCE_SCORING (unset: "false")
_is_confidence_scoring_enabled(override, env) ==
    IF override # "None" THEN override = "True" /\ env.CONFIDENCE_AVAILABLE
    ELSE ToLower(env.scoring) \in TrueWords /\ env.CONFIDENCE_AVAILABLE

\* one normalization step of post_process_prediction: "if key in data:
\* data[key] = normalizer(data[key])", r the outcome so far
NormalizeField(r, key, normalized) ==
    IF r.raised \/ ~HasKey(r.v, key) THEN r
    ELSE IF normalized.raised THEN normalized
    ELSE Return(SetKey(r.v, key, PStr(normalized.v)))

FieldText(data, key) == IF HasKey(data, key) THEN data.v[key].v ELSE <<>>

\* lines 155-166 of post_process_prediction
NormalizeFields(data, o) ==
    LET r1 == NormalizeField(Return(data), K_date_value,
                  normalize_date(FieldText(data, K_date_value), o.date))
        r2 == NormalizeField(r1, K_store_name_value,
                  normalize_store_name(FieldText(data, K_store_name_value)))
        r3 == NormalizeField(r2, K_tax_value,
                  normalize_number(FieldText(data, K_tax_value), o.tieUp))
    IN NormalizeField(r3, K_total_value,
                  normalize_number(FieldText(data, K_total_value), o.tieUp))

\* lines 168-177 of post_process_prediction
AddConfidence(data, score) ==
    LET cc == calculate_confidence_score(data, score)
    IN SetKey(SetKey(SetKey(data, K__confidence_score, cc[1]),
                     K__confidence_components, cc[2]),
              K__confidence_summary, get_confidence_summary(cc[1], cc[2]))

\* lines 168-179: the normalized record, scored if scoring is enabled
WithConfidence(normalized, override, env, o) ==
    IF normalized.raised THEN normalized
    ELSE IF _is_confidence_scoring_enabled(override, env)
         THEN Return(AddConfidence(normalized.v, o.score))
    ELSE Return(normalized.v)

\* post_process_prediction(raw_text, enable_confidence_scoring); o holds the
\* inputs of the call that come from outside the repository: o.date (the
\* outcome of dateparser), o.tieUp (see format_2f), o.score (the scorer)
\* lines 152-179: post_process_prediction from the extracted data on
post_process_extracted(data, override, env, o) ==
    IF ~Truthy(data) THEN Return(ErrorSentinel)
    ELSE WithConfidence(NormalizeFields(data, o), override, env, o)

post_process_prediction(raw_text, override, env, o) ==
    post_process_extracted(extract_json_from_text(raw_text), override, env, o)

\* float(os.getenv("INTERNVL_CONFIDENCE_THRESHOLD", "0.7")) in hundredths;
\* ValueError for a text that is no number
ThresholdOf(env) ==
    LET t == env.threshold
        dot == RunLen(Ch(Digit), t, 1) + 1
        ip == SubSeq(t, 1, dot - 1)
        fp == SubSeq(t, dot + 1, Len(t))
    IN IF /\ (ip # <<>> \/ fp # <<>>)
          /\ (dot > Len(t) \/ t[dot] = ".")
          /\ \A i \in 1..Len(fp) : fp[i] \in Digit
       THEN Return(IntOf(ip) * 100 + IntOf(SubSeq(fp \o <<"0", "0">>, 1, 2)))
       ELSE Raise("ValueError")

\* data.get("_confidence_score", default)
ConfidenceOf(data, default) ==
    IF HasKey(data, K__confidence_score) THEN data.v[K__confidence_score].v ELSE default

True == PLit("true")

\* post_process_with_retry that calls the callback whenever there is one
RetryStart_always(data, retry_callback, override, env) ==
    LET threshold == ThresholdOf(env)
    IN IF data.raised THEN [next |-> "return", ret |-> data]
       ELSE IF ~_is_confidence_scoring_enabled(override, env)
            THEN [next |-> "return", ret |-> Return(<<data.v, FALSE>>)]
       ELSE IF threshold.raised THEN [next |-> "return", ret |-> threshold]
       ELSE IF retry_callback THEN [next |-> "callback", data |-> data.v]
       ELSE [next |-> "return", ret |-> Return(<<data.v, FALSE>>)]

\* lines 203-211 of post_process_with_retry, from the outcome data of the
\* first post_process_prediction up to the call of the callback:
\*   [next |-> "return", ret]   the call is over
\*   [next |-> "callback", data]   retry_callback is being called
RetryStart(data, retry_callback, override, env) ==
    LET confidence == ConfidenceOf(data.v, 100)
        threshold == ThresholdOf(env)
    IN IF data.raised THEN [next |-> "return", ret |-> data]
       ELSE IF ~_is_confidence_scoring_enabled(override, env)
            THEN [next |-> "return", ret |-> Return(<<data.v, FALSE>>)]
       ELSE IF threshold.raised THEN [next |-> "return", ret |-> threshold]
       ELSE IF should_reprocess_prediction(confidence, threshold.v) /\ retry_callback
            THEN [next |-> "callback", data |-> data.v]
       ELSE [next |-> "return", ret |-> Return(<<data.v, FALSE>>)]

\* lines 234-238: the except branch; e names the exception, and the one-item
\* text <<e>> stands for its message str(e)
\* post_process_with_retry without its try/except
RetryFailed_uncaught(data, e) == Raise(e)

RetryFailed(data, e) == Return(<<SetKey(data, K__retry_failed, PStr(<<e>>)), FALSE>>)

\* the comparison of line 224 made with >= in place of >
RetryReturned_not_strict(data, retry_data) ==
    IF retry_data.raised THEN Return(<<SetKey(data, K__retry_failed, PStr(<<retry_data.v>>)), FALSE>>)
    ELSE IF ConfidenceOf(retry_data.v, 0) >= ConfidenceOf(data, 100)
         THEN Return(<<SetKey(SetKey(retry_data.v, K__retry_improved, True),
                              K__original_confidence, PFloat(ConfidenceOf(data, 100))), TRUE>>)
    ELSE Return(<<SetKey(SetKey(data, K__retry_attempted, True),
                         K__retry_confidence, PFloat(ConfidenceOf(retry_data.v, 0))), FALSE>>)

\* lines 219-232 and 238: the callback returned retry_raw_text, and
\* post_process_prediction made retry_data of it
RetryReturned(data, retry_data) ==
    LET confidence == ConfidenceOf(data, 100)
        retry_confidence == ConfidenceOf(retry_data.v, 0)
    IN IF retry_data.raised THEN RetryFailed(data, retry_data.v)
       ELSE IF retry_confidence > confidence
            THEN Return(<<SetKey(SetKey(retry_data.v, K__retry_improved, True),
                                 K__original_confidence, PFloat(confidence)), TRUE>>)
       ELSE Return(<<SetKey(SetKey(data, K__retry_attempted, True),
                            K__retry_confidence, PFloat(retry_confidence)), FALSE>>)

(***************************************************************************)
(* The state machine                                                       *)
(***************************************************************************)
VARIABLES
    text,       \* the text given to the call, put together piece by piece
    nseg,       \* the number of pieces of text
    pc,         \* "input": before the call, "callback": the call is inside
                \* retry_callback, "done": the call is over
    op,         \* the function that was called
    env,        \* the environment variables and CONFIDENCE_AVAILABLE
    args,       \* the arguments of the call other than the text
    orc,        \* the outside inputs of the call (dateparser, scorer)
    extracted,  \* what extract_json_from_text returned to the call
    stages,     \* the stages extract_json_from_text ran, in order
    data,       \* post_process_with_retry: the record before the retry;
                \* get_env: the variables set in the environment
    retry_out,  \* post_process_with_retry: how the call of the callback ended
    ret,        \* the outcome of the call
    calls,      \* how often retry_callback was called
    threads,    \* concurrent calls: the position and the locals of each thread
    heap        \* concurrent calls: the dict objects, by their identity

vars ==
    <<text, nseg, pc, op, env, args, orc, extracted, stages, data, retry_out, ret, calls, threads, heap>>

\* pieces of model output
S ==
    [fence |->
        <<"BQ", "BQ", "BQ">>,
     wellformed |->
        <<"{", "\"", "d", "a", "t", "e", "_", "v", "a", "l", "u", "e", "\"", ":", " ", "\"", "0", "5", "/", "0", "5", "/", "2", "0", "2", "5", "\"", ",", "\"", "s", "t", "o", "r", "e", "_", "n", "a", "m", "e", "_", "v", "a", "l", "u", "e", "\"", ":", " ", "\"", "i", "g", "a", "\"", ",", "\"", "t", "a", "x", "_", "v", "a", "l", "u", "e", "\"", ":", " ", "\"", "$", "1", ".", "8", "\"", ",", "\"", "t", "o", "t", "a", "l", "_", "v", "a", "l", "u", "e", "\"", ":", " ", "\"", "9", ".", "5", "\"", ",", "\"", "p", "r", "o", "d", "_", "i", "t", "e", "m", "_", "v", "a", "l", "u", "e", "\"", ":", " ", "[", "\"", "M", "i", "l", "k", "\"", "]", ",", "\"", "p", "r", "o", "d", "_", "q", "u", "a", "n", "t", "i", "t", "y", "_", "v", "a", "l", "u", "e", "\"", ":", " ", "[", "\"", "2", "\"", "]", ",", "\"", "p", "r", "o", "d", "_", "p", "r", "i", "c", "e", "_", "v", "a", "l", "u", "e", "\"", ":", " ", "[", "\"", "4", ".", "5", "\"", "]", "}">>,
     prose |->
        <<"h", "e", "l", "l", "o", " ", "w", "o", "r", "l", "d">>,
     unterminated |->
        <<"{", "\"", "d", "a", "t", "e", "_", "v", "a", "l", "u", "e", "\"", ":", " ", "\"", "1", "5", "/", "0", "6", "/", "2", "0", "2", "4", "\n", "}">>,
     tax |->
        <<"\"", "t", "a", "x", "_", "v", "a", "l", "u", "e", "\"", ":", " ", "\"", "1", "2", ".", "8", "2", ",", "\n">>,
     items |->
        <<"\"", "p", "r", "o", "d", "_", "i", "t", "e", "m", "_", "v", "a", "l", "u", "e", "\"", ":", " ", "[", "\n", "\"", "M", "i", "l", "k", " ", "2", "L", ",", "\n", "\"", "B", "r", "e", "a", "d", "\"", "\n", "]", ",">>,
     newline |->
        <<"\n">>,
     lbrace |->
        <<"{">>,
     rbrace |->
        <<"}">>]

Segments == {S.fence, S.wellformed, S.prose, S.unterminated, S.tax, S.items, S.newline}

MaxSegs == 3

\* outcomes of dateparser.parse, the rounding input, scores of the scorer
DateOutcomes == {[k |-> "none"], [k |-> "raise"], [k |-> "date", d |-> 6, m |-> 5, y |-> 2025]}
Scores == {40, 70, 90}
Oracles == [date : DateOutcomes, tieUp : BOOLEAN, score : Scores]
NoOracle == [date |-> ParsedNone, tieUp |-> FALSE, score |-> 100]

Overrides == {"None", "True", "False"}

\* the environment: INTERNVL_ENABLE_CONFIDENCE_SCORING (default "false"),
\* INTERNVL_CONFIDENCE_THRESHOLD (default "0.7"), and whether the import of
\* the confidence module worked
DefaultEnv ==
    [scoring |-> <<"f", "a", "l", "s", "e">>, threshold |-> <<"0", ".", "7">>,
     CONFIDENCE_AVAILABLE |-> TRUE]
Envs ==
    [scoring : {<<"f", "a", "l", "s", "e">>, <<"T", "r", "u", "e">>},
     threshold : {<<"0", ".", "7">>, <<"0", ".", "5">>, <<"h", "i", "g", "h">>},
     CONFIDENCE_AVAILABLE : BOOLEAN]

NoArgs == [override |-> "None", retry_callback |-> FALSE]
NoRet == Return(None)
NoCallback == [k |-> "none"]

InitCommon ==
    /\ text = <<>>
    /\ nseg = 0
    /\ pc = "input"
    /\ op = "none"
    /\ args = NoArgs
    /\ orc = NoOracle
    /\ extracted = None
    /\ stages = <<>>
    /\ data = None
    /\ retry_out = NoCallback
    /\ ret = NoRet
    /\ calls = 0
    /\ threads = <<>>
    /\ heap = <<>>

\* the model emits one more piece of output
AppendSegment(seg) ==
    /\ pc = "input"
    /\ nseg < MaxSegs
    /\ text' = text \o seg
    /\ nseg' = nseg + 1
    /\ UNCHANGED <<pc, op, env, args, orc, extracted, stages, data, retry_out, ret, calls, threads, heap>>

\* post_process_prediction after the run of extract_json_from_text, with the
\* outside inputs o
Processed(run, override, e, o) ==
    [override |-> override, o |-> o, extracted |-> run.v, stages |-> run.stages,
     ret |-> post_process_extracted(run.v, override, e, o)]

\* the runs of post_process_prediction(raw_text, override), one for each
\* override and each outcome of the outside inputs
PostProcessRuns(raw_text, e) ==
    {Processed(run, override, e, o) :
        run \in {ExtractRun(raw_text)}, override \in Overrides, o \in Oracles}

\* a call post_process_prediction(text, override)
CallPostProcess ==
    /\ pc = "input"
    /\ \E run \in PostProcessRuns(text, env) :
            /\ args' = [override |-> run.override, retry_callback |-> FALSE]
            /\ orc' = run.o
            /\ extracted' = run.extracted
            /\ stages' = run.stages
            /\ ret' = run.ret
    /\ pc' = "done"
    /\ op' = "post_process_prediction"
    /\ UNCHANGED <<text, nseg, env, data, retry_out, calls, threads, heap>>

Init ==
    /\ InitCommon
    /\ env \in {DefaultEnv}

Next ==
    \/ \E seg \in Segments : AppendSegment(seg)
    \/ CallPostProcess

Spec == Init /\ [][Next]_vars

PostProcessDone == pc = "done" /\ op = "post_process_prediction"

\* C1: for every input text post_process_prediction returns a value; no
\* exception reaches its caller
C1_NeverRaises == PostProcessDone => ~ret.raised

\* a call in which dateparser raised on the date of the record, and
\* post_process_prediction returned all the same
C1_Witness ==
    /\ PostProcessDone
    /\ extracted.v[K_date_value].v # <<>>
    /\ orc.date.k = "raise"
    /\ ~ret.raised
    /\ ret.v.v[K_date_value] = extracted.v[K_date_value]

IsSentinel(r) == r.t = "dict" /\ DOMAIN r.v = {K_error}

\* C2: post_process_prediction returns a record with all seven canonical
\* keys, or else the error sentinel, and the sentinel only for the empty text
C2_SevenKeys ==
    PostProcessDone =>
        /\ ~ret.raised
        /\ \/ ret.v.t = "dict" /\ CanonicalKeys \subseteq DOMAIN ret.v.v
           \/ IsSentinel(ret.v) /\ text = <<>>

\* a call on a text in which the reconstructor finds one field only
C2_Witness ==
    /\ PostProcessDone
    /\ text = S.prose \o S.tax
    /\ extracted.v[K_tax_value].v # <<>>
    /\ extracted.v[K_date_value].v = <<>>
    /\ CanonicalKeys \subseteq DOMAIN ret.v.v

\* the JSON text the input carries: the text itself, or the inside of the
\* fenced block the text is
FenceBody(t) ==
    IF Len(t) >= 6 /\ SubSeq(t, 1, 3) = S.fence /\ SubSeq(t, Len(t) - 2, Len(t)) = S.fence
    THEN SubSeq(t, 4, Len(t) - 3)
    ELSE t

Carried(t) == JsonLoads(Strip(FenceBody(t)))

IsStrValue(x) == x.t = "str"

IsStrList(x) == x.t = "list" /\ \A i \in 1..Len(x.v) : IsStrValue(x.v[i])

\* the text is a well-formed JSON object with the seven canonical fields,
\* bare or inside a fenced block
WellFormedSeven(t) ==
    /\ t # <<>>
    /\ t[1] \in {"{", "BQ"}
    /\ LET c == Carried(t)
       IN /\ c.ok
          /\ c.v.t = "dict"
          /\ DOMAIN c.v.v = CanonicalKeys
          /\ \A k \in ScalarFields : IsStrValue(c.v.v[k])
          /\ \A k \in ArrayFields : IsStrList(c.v.v[k])

\* C3: for a well-formed JSON object with the seven canonical fields, bare
\* or fenced, extract_json_from_text returns the seven fields of the input;
\* post_process_prediction returns the arrays of the input and, for the
\* scalars, the normalizers applied to the values of the input
C3_RoundTrip ==
    (PostProcessDone /\ WellFormedSeven(text)) =>
        LET input == Carried(text).v.v
        IN /\ \A k \in CanonicalKeys : extracted.v[k] = input[k]
           /\ ~ret.raised
           /\ \A k \in ArrayFields : ret.v.v[k] = input[k]
           /\ ret.v.v[K_date_value].v = normalize_date(input[K_date_value].v, orc.date).v
           /\ ret.v.v[K_store_name_value].v = normalize_store_name(input[K_store_name_value].v).v
           /\ ret.v.v[K_tax_value].v = normalize_number(input[K_tax_value].v, orc.tieUp).v
           /\ ret.v.v[K_total_value].v = normalize_number(input[K_total_value].v, orc.tieUp).v

AllCandidates(t) == FencedCandidates(t) \o BraceCandidates(t)

SomeCandidateParses(t) ==
    \E i \in 1..Len(AllCandidates(t)) : ~IsNone(_try_parse_with_cleaning(AllCandidates(t)[i]))

\* C4: in a call of extract_json_from_text the reconstructor runs only
\* after the candidates, and only when every fenced and every brace
\* candidate failed to parse; when a candidate parses, the value returned is
\* that candidate's value
C4_ReconstructorLast ==
    PostProcessDone =>
        /\ \A i \in 1..Len(stages) :
              stages[i] = "_reconstruct_malformed_json" =>
                  /\ \E j \in 1..(i - 1) : stages[j] = "candidates"
                  /\ ~SomeCandidateParses(text)
        /\ SomeCandidateParses(text) =>
              extracted = FirstParsed(AllCandidates(text))

\* text without a fence, a brace, a quote or a colon
Unstructured(t) == t # <<>> /\ \A i \in 1..Len(t) : t[i] \in Lower \cup {" ", "\n"}

\* C9: for unstructured text ("hello world") post_process_prediction
\* returns the default record: the four scalar fields are empty strings and
\* the three arrays are empty; no sentinel, no exception
C9_UnstructuredDefault ==
    (PostProcessDone /\ Unstructured(text)) =>
        /\ ~ret.raised
        /\ ~IsSentinel(ret.v)
        /\ CanonicalKeys \subseteq DOMAIN ret.v.v
        /\ \A k \in ScalarFields : ret.v.v[k] = PStr(<<>>)
        /\ \A k \in ArrayFields : ret.v.v[k] = PList(<<>>)

C9_Witness ==
    /\ PostProcessDone
    /\ text = S.prose
    /\ \A k \in CanonicalKeys : ret.v.v[k] = default_json.v[k]

(***************************************************************************)
(* post_process_with_retry                                                 *)
(***************************************************************************)
RetryTexts == {<<>>, S.prose, S.tax}

RetryOracles == [date : {ParsedNone}, tieUp : {FALSE}, score : Scores]

CallbackErrors == {"RuntimeError", "TimeoutError"}

\* the runs of post_process_prediction on raw_text, one for each outcome of
\* the outside inputs
ProcessedBy(raw_text, override, e) ==
    {Processed(run, override, e, o) : run \in {ExtractRun(raw_text)}, o \in RetryOracles}

\* a call post_process_with_retry(text, image_path, retry_callback,
\* override), up to its return or to its call of the callback
CallWithRetry ==
    /\ pc = "input"
    /\ \E override \in Overrides, retry_callback \in BOOLEAN :
        \E run \in ProcessedBy(text, override, env) :
            LET start == RetryStart(run.ret, retry_callback, override, env)
            IN /\ args' = [override |-> override, retry_callback |-> retry_callback]
               /\ orc' = run.o
               /\ extracted' = run.extracted
               /\ stages' = run.stages
               /\ data' = IF run.ret.raised THEN None ELSE run.ret.v
               /\ IF start.next = "callback"
                  THEN pc' = "callback" /\ calls' = calls + 1 /\ ret' = NoRet
                  ELSE pc' = "done" /\ calls' = calls /\ ret' = start.ret
    /\ op' = "post_process_with_retry"
    /\ UNCHANGED <<text, nseg, env, retry_out, threads, heap>>

\* the callback returns a text, and post_process_with_retry goes on to its end
CallbackReturns ==
    /\ pc = "callback"
    /\ \E retry_raw_text \in RetryTexts :
        \E run \in ProcessedBy(retry_raw_text, args.override, env) :
            /\ retry_out' = [k |-> "text", v |-> retry_raw_text]
            /\ orc' = run.o
            /\ ret' = RetryReturned(data, run.ret)
    /\ pc' = "done"
    /\ UNCHANGED <<text, nseg, op, env, args, extracted, stages, data, calls, threads, heap>>

\* the callback raises, and post_process_with_retry goes on to its end
CallbackRaises ==
    /\ pc = "callback"
    /\ \E e \in CallbackErrors :
            /\ retry_out' = [k |-> "raise", e |-> e]
            /\ ret' = RetryFailed(data, e)
    /\ pc' = "done"
    /\ UNCHANGED <<text, nseg, op, env, args, orc, extracted, stages, data, calls, threads, heap>>

InitRetry ==
    /\ text \in RetryTexts
    /\ nseg = 0
    /\ pc = "input"
    /\ op = "none"
    /\ env \in Envs
    /\ args = NoArgs
    /\ orc = NoOracle
    /\ extracted = None
    /\ stages = <<>>
    /\ data = None
    /\ retry_out = NoCallback
    /\ ret = NoRet
    /\ calls = 0
    /\ threads = <<>>
    /\ heap = <<>>

NextRetry ==
    \/ CallWithRetry
    \/ CallbackReturns
    \/ CallbackRaises

SpecRetry == InitRetry /\ [][NextRetry]_vars

RetryDone == pc = "done" /\ op = "post_process_with_retry"

\* C7: when the callback raises inside post_process_with_retry the exception
\* is caught: the call returns (record, False), where the record is the one
\* from before the retry, with all its fields, plus _retry_failed holding the
\* message
C7_RetryFailureCaught ==
    (RetryDone /\ retry_out.k = "raise") =>
        /\ ~ret.raised
        /\ ret.v[2] = FALSE
        /\ ret.v[1].t = "dict"
        /\ DOMAIN ret.v[1].v = DOMAIN data.v \cup {K__retry_failed}
        /\ \A k \in DOMAIN data.v : ret.v[1].v[k] = data.v[k]
        /\ ret.v[1].v[K__retry_failed] = PStr(<<retry_out.e>>)

C7_Witness ==
    /\ RetryDone
    /\ retry_out.k = "raise"
    /\ K__retry_failed \notin DOMAIN data.v
    /\ CanonicalKeys \subseteq DOMAIN ret.v[1].v
    /\ K__retry_failed \in DOMAIN ret.v[1].v

\* confidence scoring is enabled for the call: by the argument, or without
\* an argument by the environment, and the confidence module is there
ScoringOn ==
    /\ env.CONFIDENCE_AVAILABLE
    /\ \/ args.override = "True"
       \/ args.override = "None" /\ ToLower(env.scoring) \in TrueWords

\* C8: in a call of post_process_with_retry the callback is called at most
\* once, and only if scoring is enabled, a callback was supplied and
\* should_reprocess_prediction(confidence, threshold) is true; with scoring
\* disabled the call returns (post_process_prediction's record, False) and
\* the callback is not called
C8_CallbackGuard ==
    /\ calls <= 1
    /\ calls = 1 =>
        /\ ScoringOn
        /\ args.retry_callback
        /\ ~ThresholdOf(env).raised
        /\ should_reprocess_prediction(ConfidenceOf(data, 100), ThresholdOf(env).v)
    /\ (RetryDone /\ ~ScoringOn) =>
        /\ calls = 0
        /\ ret = Return(<<post_process_prediction(text, args.override, env, orc).v, FALSE>>)

\* a call that called the callback, which returned a text
C8_Witness == RetryDone /\ calls = 1 /\ retry_out.k = "text"

(***************************************************************************)
(* The field normalizers called on their own                               *)
(***************************************************************************)
\* pieces of field values
T ==
    [digit |->
        <<"1">>,
     thousands |->
        <<",", "2", "3", "4">>,
     cents |->
        <<".", "5", "0">>,
     period |->
        <<".">>,
     dollar |->
        <<"$">>,
     space |->
        <<" ">>,
     word |->
        <<"h", "e", "l", "l", "o">>,
     date |->
        <<"1", "5", "/", "0", "6", "/", "2", "0", "2", "4">>,
     minus |->
        <<"-">>,
     half |->
        <<".", "0", "0", "5">>]

Tokens ==
    {T.digit, T.thousands, T.cents, T.period, T.dollar, T.space, T.word, T.date, T.minus, T.half}

MaxTokens == 3

\* the field value grows by one piece
AppendToken(tok) ==
    /\ pc = "input"
    /\ nseg < MaxTokens
    /\ text' = text \o tok
    /\ nseg' = nseg + 1
    /\ UNCHANGED <<pc, op, env, args, orc, extracted, stages, data, retry_out, ret, calls, threads, heap>>

\* a call of a normalizer; a normalizer returns a str
NormalizerCall(name, o, result) ==
    /\ pc = "input"
    /\ pc' = "done"
    /\ op' = name
    /\ orc' = o
    /\ ret' = IF result.raised THEN result ELSE Return(PStr(result.v))
    /\ UNCHANGED <<text, nseg, env, args, extracted, stages, data, retry_out, calls, threads, heap>>

CallNormalizeNumber ==
    \E tieUp \in BOOLEAN :
        NormalizerCall("normalize_number", [NoOracle EXCEPT !.tieUp = tieUp],
                       normalize_number(text, tieUp))

CallNormalizeDate ==
    \E d \in DateOutcomes :
        NormalizerCall("normalize_date", [NoOracle EXCEPT !.date = d],
                       normalize_date(text, d))

CallNormalizeStoreName ==
    NormalizerCall("normalize_store_name", NoOracle, normalize_store_name(text))

InitNorm ==
    /\ InitCommon
    /\ env = DefaultEnv

NextNorm ==
    \/ \E tok \in Tokens : AppendToken(tok)
    \/ CallNormalizeNumber
    \/ CallNormalizeDate
    \/ CallNormalizeStoreName

SpecNorm == InitNorm /\ [][NextNorm]_vars

\* the value is d,ddd.dd: digits in groups of three set off by commas (one
\* comma at least), a period, digits
ThousandsDecimal(t) ==
    LET dot == RunLen(NotCh({"."}), t, 1) + 1
        n == dot - 1
    IN /\ n >= 5
       /\ dot < Len(t)
       /\ \A i \in 1..n : IF (n - i) % 4 = 3 THEN t[i] = "," ELSE t[i] \in Digit
       /\ \A i \in (dot + 1)..Len(t) : t[i] \in Digit

\* the amount of a d,ddd.dd value with two fractional digits
AmountOf(t, tieUp) ==
    LET dot == RunLen(NotCh({"."}), t, 1) + 1
    IN format_2f(SelectSeq(SubSeq(t, 1, dot - 1), LAMBDA ch : ch # ","),
                 SubSeq(t, dot + 1, Len(t)), tieUp)

\* C5: for a value with a comma as thousands separator and a period as
\* decimal point ("1,234.50") normalize_number returns the amount without
\* the comma and with two fractional digits ("1234.50")
C5_ThousandsComma ==
    (pc = "done" /\ op = "normalize_number" /\ ThousandsDecimal(text)) =>
        ret = Return(PStr(AmountOf(text, orc.tieUp)))

\* C6: a normalizer returns exactly its input when the value cannot be
\* brought to the canonical form: normalize_date when dateparser finds no
\* date (also for an input with a space), normalize_number when the value
\* holds no number
C6_OriginalOnFailure ==
    /\ (pc = "done" /\ op = "normalize_date" /\ orc.date.k # "date") =>
           ret = Return(PStr(text))
    /\ (pc = "done" /\ op = "normalize_number"
            /\ \A i \in 1..Len(text) : text[i] \notin Digit) =>
           ret = Return(PStr(text))

(***************************************************************************)
(* extract_json_from_text of json_extraction.py called on its own          *)
(***************************************************************************)
LegacySegments ==
    {S.fence, S.prose, S.lbrace, S.rbrace, S.wellformed, S.unterminated, S.tax}

CallLegacyExtract ==
    /\ pc = "input"
    /\ pc' = "done"
    /\ op' = "json_extraction.extract_json_from_text"
    /\ ret' = Return(legacy_extract_json_from_text(text))
    /\ UNCHANGED <<text, nseg, env, args, orc, extracted, stages, data, retry_out, calls, threads, heap>>

InitLegacy ==
    /\ InitCommon
    /\ env = DefaultEnv

NextLegacy ==
    \/ \E seg \in LegacySegments : AppendSegment(seg)
    \/ CallLegacyExtract

SpecLegacy == InitLegacy /\ [][NextLegacy]_vars

\* text of prose, fences and braces only: no quote, no colon, no digit
NothingRecognizable(t) ==
    \A i \in 1..Len(t) : t[i] \in Lower \cup {" ", "\n", "BQ", "{", "}"}

\* C10: extract_json_from_text of json_extraction.py returns the default
\* record, with all seven canonical keys, for a text with no parseable
\* record and no recognizable field, a fenced block of prose and an empty or
\* garbage brace span included
C10_LegacyDefault ==
    (pc = "done" /\ op = "json_extraction.extract_json_from_text"
        /\ NothingRecognizable(text)) =>
        ret = Return(default_json)

(***************************************************************************)
(* The structural repairers called on their own, on valid JSON             *)
(***************************************************************************)
\* string values of the documents: an apostrophe, a colon, repeated spaces,
\* a comma before a brace, a plain word
DocValues ==
    {<<"i", "t", "'", "s">>, <<"a", ":", " ", "b">>, <<"x", " ", " ", "y">>,
     <<"a", ",", " ", "}">>, <<"p">>}

\* the parts of a layout: compact on one line, or pretty-printed as
\* json.dumps(indent=2) writes it
Layouts ==
    {[open |-> <<"{">>, sep |-> <<",", " ">>, close |-> <<"}">>],
     [open |-> <<"{", "\n", " ", " ">>, sep |-> <<",", "\n", " ", " ">>,
      close |-> <<"\n", "}">>]}

\* the member "key": "value"
MemberText(key, value) == <<Q>> \o key \o <<Q, ":", " ", Q>> \o value \o <<Q>>

\* valid JSON objects of two members
JsonDocs ==
    {lay.open \o MemberText(<<"a">>, v1) \o lay.sep \o MemberText(<<"b">>, v2) \o lay.close :
        lay \in Layouts, v1 \in DocValues, v2 \in DocValues}

CallUltraClean ==
    NormalizerCall("_ultra_clean_json", NoOracle, Return(_ultra_clean_json(text)))

CallCleanAndFix ==
    NormalizerCall("_clean_and_fix_json", NoOracle, _clean_and_fix_json(text))

InitRepair ==
    /\ text \in JsonDocs
    /\ nseg = 0
    /\ pc = "input"
    /\ op = "none"
    /\ env = DefaultEnv
    /\ args = NoArgs
    /\ orc = NoOracle
    /\ extracted = None
    /\ stages = <<>>
    /\ data = None
    /\ retry_out = NoCallback
    /\ ret = NoRet
    /\ calls = 0
    /\ threads = <<>>
    /\ heap = <<>>

NextRepair ==
    \/ CallUltraClean
    \/ CallCleanAndFix

SpecRepair == InitRepair /\ [][NextRepair]_vars

\* C11: a structural repairer (_ultra_clean_json, _clean_and_fix_json)
\* applied to a text that is valid JSON returns a text that parses to the
\* same value as the input
C11_ValidUnaltered ==
    (pc = "done" /\ op \in {"_ultra_clean_json", "_clean_and_fix_json"}
        /\ JsonLoads(text).ok) =>
        /\ ~ret.raised
        /\ JsonLoads(ret.v.v) = JsonLoads(text)

(***************************************************************************)
(* extract_json_from_text and _try_parse_with_cleaning called on one       *)
(* record of the model's output, bare or inside a fence                    *)
(***************************************************************************)
Quoted(s) == <<Q>> \o s \o <<Q>>

PlainObject(body) == <<"{">> \o body \o <<"}">>

\* an object with a comma between its last member and the closing brace
TrailingCommaObject(body, gap) == <<"{">> \o body \o <<",">> \o gap \o <<"}">>

NumberMember == Quoted(<<"a">>) \o <<":", " ", "1">>

TrailingBodies ==
    {NumberMember,
     NumberMember \o <<",", " ">> \o MemberText(<<"b">>, <<"p">>),
     MemberText(K_date_value, <<"0", "5", "/", "0", "5", "/", "2", "0", "2", "5">>),
     MemberText(K_total_value, <<"9", ".", "5", "0">>)}

Gaps == {<<>>, <<" ">>, <<"\n">>}

TrailingCommaObjects == {TrailingCommaObject(body, gap) : body \in TrailingBodies, gap \in Gaps}

\* the text inside a fence: a line "json" after the opening backquotes
Fenced(body) ==
    S.fence \o <<"j", "s", "o", "n", "\n">> \o body \o <<"\n">> \o S.fence

WrapInFence ==
    /\ pc = "input"
    /\ nseg = 0
    /\ text' = Fenced(text)
    /\ nseg' = 1
    /\ UNCHANGED <<pc, op, env, args, orc, extracted, stages, data, retry_out, ret, calls, threads, heap>>

\* a call extract_json_from_text(text) of json_extraction_fixed.py
CallExtractJson ==
    /\ pc = "input"
    /\ \E run \in {ExtractRun(text)} :
            /\ extracted' = run.v
            /\ stages' = run.stages
            /\ ret' = Return(run.v)
    /\ pc' = "done"
    /\ op' = "extract_json_from_text"
    /\ UNCHANGED <<text, nseg, env, args, orc, data, retry_out, calls, threads, heap>>

\* a call _try_parse_with_cleaning(text)
CallTryParse ==
    /\ pc = "input"
    /\ pc' = "done"
    /\ op' = "_try_parse_with_cleaning"
    /\ ret' = Return(_try_parse_with_cleaning(text))
    /\ UNCHANGED <<text, nseg, env, args, orc, extracted, stages, data, retry_out, calls, threads, heap>>

\* another scalar key, for the member that follows
NextKeyOf(key) == IF key = K_total_value THEN K_tax_value ELSE K_total_value

FollowingMember(key) == MemberText(NextKeyOf(key), <<"7", ".", "0", "0">>)

UnterminatedValues ==
    {<<"1", "5", "/", "0", "6", "/", "2", "0", "2", "4">>,
     <<"I", "G", "A">>,
     <<"J", "o", "e", "'", "s">>,
     <<"$", "1", ".", "8", "0">>,
     <<"1", "2", ",", "5", "0">>,
     <<"9", ".", "5", "0">>}

\* what follows the newline of an unterminated value: the closing brace, or
\* the next key
ClosingTail(key) == <<"}">>
NextKeyTail(key) == FollowingMember(key) \o <<"}">>

\* a record whose value of key lacks its closing quote before the newline
UnterminatedRecord(key, value, tail) ==
    <<"{">> \o Quoted(key) \o <<":", " ", Q>> \o value \o <<"\n">> \o tail

UnterminatedRecords ==
    {UnterminatedRecord(key, value, ClosingTail(key)) : key \in ScalarFields, value \in UnterminatedValues}
    \cup {UnterminatedRecord(key, value, NextKeyTail(key)) : key \in ScalarFields, value \in UnterminatedValues}

\* field values with a raw control character
ControlValues ==
    {<<"I", "G", "A", "BS", "M", "K", "T">>,
     <<"a", "BS", " ", "b">>,
     <<"W", "DEL", "W">>,
     <<"5", ".", "VT", "0">>}

ControlChars == (CtrlBelow32 \ {"\t", "\n", "\r"}) \cup {"DEL"}

\* a well-formed record with one member, or with a second one after it
ControlRecord(key, value) == PlainObject(MemberText(key, value))
ControlRecord2(key, value) ==
    PlainObject(MemberText(key, value) \o <<",", " ">> \o FollowingMember(key))

ControlRecords ==
    {ControlRecord(key, value) : key \in ScalarFields, value \in ControlValues}
    \cup {ControlRecord2(key, value) : key \in ScalarFields, value \in ControlValues}

InitExtract ==
    /\ text \in TrailingCommaObjects \cup UnterminatedRecords \cup ControlRecords
    /\ nseg = 0
    /\ pc = "input"
    /\ op = "none"
    /\ env = DefaultEnv
    /\ args = NoArgs
    /\ orc = NoOracle
    /\ extracted = None
    /\ stages = <<>>
    /\ data = None
    /\ retry_out = NoCallback
    /\ ret = NoRet
    /\ calls = 0
    /\ threads = <<>>
    /\ heap = <<>>

NextExtract ==
    \/ WrapInFence
    \/ CallExtractJson
    \/ CallTryParse

SpecExtract == InitExtract /\ [][NextExtract]_vars

ExtractDone == pc = "done" /\ op = "extract_json_from_text"
TryParseDone == pc = "done" /\ op = "_try_parse_with_cleaning"

\* every member of the dict d is a member of the dict r, with the same value
ContentOf(d, r) ==
    /\ d.t = "dict"
    /\ r.t = "dict"
    /\ \A k \in DOMAIN d.v : k \in DOMAIN r.v /\ r.v[k] = d.v[k]

\* C12: for an object that is valid JSON but for a comma before its closing
\* brace, _try_parse_with_cleaning returns the parse of the object without
\* the comma, and extract_json_from_text of the text with that object in a
\* fence returns a record with that object's content
C12_TrailingComma ==
    \A body \in TrailingBodies, gap \in Gaps :
        /\ (TryParseDone /\ text = TrailingCommaObject(body, gap)) =>
                ret = Return(JsonLoads(PlainObject(body)).v)
        /\ (ExtractDone /\ text = Fenced(TrailingCommaObject(body, gap))) =>
                ContentOf(JsonLoads(PlainObject(body)).v, ret.v)

\* the texts with the value of key unterminated: bare or in a fence, before
\* the closing brace or before the next key
UnterminatedTexts(key, value) ==
    {UnterminatedRecord(key, value, ClosingTail(key)),
     UnterminatedRecord(key, value, NextKeyTail(key)),
     Fenced(UnterminatedRecord(key, value, ClosingTail(key))),
     Fenced(UnterminatedRecord(key, value, NextKeyTail(key)))}

\* C13: for a text in which the quoted value of a canonical scalar field is
\* unterminated and followed by a newline and then the closing brace or the
\* next key, extract_json_from_text returns a record, not an error, in which
\* the field holds the non-empty value text before the newline
C13_UnterminatedValue ==
    \A key \in ScalarFields, value \in UnterminatedValues :
        (ExtractDone /\ text \in UnterminatedTexts(key, value)) =>
            /\ ~ret.raised
            /\ ~HasKey(ret.v, K_error)
            /\ HasKey(ret.v, key)
            /\ ret.v.v[key] = PStr(value)
            /\ value # <<>>

NotControlNorSpace(c) == c \notin ControlChars \cup {" "}

\* the characters of a value other than control characters and spaces
RestOf(value) == SelectSeq(value, NotControlNorSpace)

\* C14: for a well-formed record with raw control characters in a field
\* value, the sanitizer puts a space for each control character and leaves
\* every other character, and extract_json_from_text returns a record in
\* which the field holds the rest of the value's content
C14_ControlCharacters ==
    \A key \in ScalarFields, value \in ControlValues :
        (ExtractDone /\ text \in {ControlRecord(key, value), ControlRecord2(key, value)}) =>
            /\ Len(Sanitized(text)) = Len(text)
            /\ \A i \in 1..Len(text) :
                    Sanitized(text)[i] = IF text[i] \in ControlChars THEN " " ELSE text[i]
            /\ HasKey(ret.v, key)
            /\ ret.v.v[key].t = "str"
            /\ RestOf(ret.v.v[key].v) = RestOf(value)

NumberDone == pc = "done" /\ op = "normalize_number"

\* C15: normalize_number is idempotent: normalize_number of the value it
\* returned is that value again, for values with a currency symbol, a sign,
\* several separators or no digit
C15_NumberIdempotent ==
    NumberDone =>
        /\ ~ret.raised
        /\ \A tieUp \in BOOLEAN : normalize_number(ret.v.v, tieUp) = Return(ret.v.v)

\* a call that changed a value with a currency symbol and two separators
C15_Witness ==
    /\ NumberDone
    /\ Contains(text, T.dollar)
    /\ Contains(text, T.thousands)
    /\ Contains(text, T.cents)
    /\ ret.v.v # text

StoreNameDone == pc = "done" /\ op = "normalize_store_name"

\* C16: the value normalize_store_name returns has no lower-case letter and
\* no whitespace at either end, normalize_store_name of it is that value
\* again, and the empty string gives the empty string
C16_StoreNameCanonical ==
    StoreNameDone =>
        /\ ~ret.raised
        /\ \A i \in 1..Len(ret.v.v) : ret.v.v[i] \notin Lower
        /\ ret.v.v # <<>> => (ret.v.v[1] \notin SpaceCh /\ ret.v.v[Len(ret.v.v)] \notin SpaceCh)
        /\ normalize_store_name(ret.v.v) = Return(ret.v.v)
        /\ text = <<>> => ret.v.v = <<>>

\* a call on a name with lower-case letters between spaces
C16_Witness ==
    /\ StoreNameDone
    /\ text = T.space \o T.word \o T.space
    /\ ret = Return(PStr(ToUpper(T.word)))

(***************************************************************************)
(* post_process_prediction under every setting of confidence scoring       *)
(***************************************************************************)
ScoringTexts == {<<>>, S.prose, S.wellformed, S.unterminated, S.fence \o S.wellformed \o S.fence}

InitScoring ==
    /\ text \in ScoringTexts
    /\ nseg = 0
    /\ pc = "input"
    /\ op = "none"
    /\ env \in Envs
    /\ args = NoArgs
    /\ orc = NoOracle
    /\ extracted = None
    /\ stages = <<>>
    /\ data = None
    /\ retry_out = NoCallback
    /\ ret = NoRet
    /\ calls = 0
    /\ threads = <<>>
    /\ heap = <<>>

NextScoring == CallPostProcess

SpecScoring == InitScoring /\ [][NextScoring]_vars

ConfidenceKeys == {K__confidence_score, K__confidence_components, K__confidence_summary}

\* scoring is asked for: by the argument, or without one by the environment
ScoringRequested ==
    \/ args.override = "True"
    \/ args.override = "None" /\ ToLower(env.scoring) \in TrueWords

\* C17: the record post_process_prediction returns holds the three
\* confidence keys exactly when scoring is asked for and the confidence
\* module is available; with them or without, the seven canonical fields
\* are those of the normalized record, and without them no key of the
\* record starts with an underscore
C17_ConfidenceMetadata ==
    PostProcessDone =>
        /\ ~ret.raised
        /\ (ScoringRequested /\ env.CONFIDENCE_AVAILABLE) =>
                ConfidenceKeys \subseteq DOMAIN ret.v.v
        /\ ~(ScoringRequested /\ env.CONFIDENCE_AVAILABLE) =>
                \A k \in DOMAIN ret.v.v : k[1] # "_"
        /\ \A k \in CanonicalKeys :
                /\ k \in DOMAIN ret.v.v
                /\ ret.v.v[k] = NormalizeFields(extracted, orc).v.v[k]

\* scoring switched on by the environment, and the record scored
C17_Witness ==
    /\ PostProcessDone
    /\ args.override = "None"
    /\ ToLower(env.scoring) \in TrueWords
    /\ env.CONFIDENCE_AVAILABLE
    /\ text = S.wellformed
    /\ ConfidenceKeys \subseteq DOMAIN ret.v.v

(***************************************************************************)
(* src/internvl/config/config.py: get_env                                  *)
(***************************************************************************)
env_prefix == <<"I", "N", "T", "E", "R", "N", "V", "L", "_">>
path_key == <<"p", "a", "t", "h">>

EndsWith(s, p) == Len(s) >= Len(p) /\ SubSeq(s, Len(s) - Len(p) + 1, Len(s)) = p

\* lines 70-72: the name looked up
PrefixedKey(key) ==
    IF ~StartsWith(key, 1, env_prefix) /\ key # path_key THEN env_prefix \o key ELSE key

\* os.getenv(key): None for a variable that is not set
os_getenv(environ, key) == IF key \in DOMAIN environ THEN PStr(environ[key]) ELSE None

\* value.split(":")[-1]
LastPart(value) ==
    LET colons == {i \in 1..Len(value) : value[i] = ":"}
    IN IF colons = {} THEN value
       ELSE SubSeq(value, (CHOOSE i \in colons : \A j \in colons : i >= j) + 1, Len(value))

\* os.path.isabs
isabs(p) == p # <<>> /\ p[1] = "/"

\* lines 91-97: of a PATH-like value of a path variable only the last part
PathFixed(key, value) ==
    IF EndsWith(ToLower(key), path_key) /\ Contains(value, <<":">>) /\ isabs(LastPart(value))
    THEN LastPart(value) ELSE value

PInt(n) == [t |-> "int", v |-> n]
PBool(b) == IF b THEN PLit("true") ELSE PLit("false")

\* int(value): digits, a sign before them and whitespace around them
int_of(value) ==
    LET t == Strip(value)
        ds == IF t # <<>> /\ t[1] \in {"-", "+"} THEN SubSeq(t, 2, Len(t)) ELSE t
    IN IF ds # <<>> /\ \A i \in 1..Len(ds) : ds[i] \in Digit
       THEN Return(PInt(IF t[1] = "-" THEN 0 - IntOf(ds) ELSE IntOf(ds)))
       ELSE Raise("ValueError")

\* float(value) for a sign, digits and at most one period, with whitespace
\* around them, in hundredths
float_digits(t, dot) ==
    IF /\ (dot > 1 \/ dot < Len(t))
       /\ (dot > Len(t) \/ t[dot] = ".")
       /\ \A i \in (dot + 1)..Len(t) : t[i] \in Digit
    THEN Return(PFloat(IntOf(SubSeq(t, 1, dot - 1)) * 100
                       + IntOf(SubSeq(SubSeq(t, dot + 1, Len(t)) \o <<"0", "0">>, 1, 2))))
    ELSE Raise("ValueError")

float_unsigned(t) == float_digits(t, RunLen(Ch(Digit), t, 1) + 1)

float_signed(t) ==
    IF t # <<>> /\ t[1] = "-"
    THEN (IF float_unsigned(Tail(t)).raised THEN Raise("ValueError")
          ELSE Return(PFloat(0 - float_unsigned(Tail(t)).v.v)))
    ELSE IF t # <<>> /\ t[1] = "+" THEN float_unsigned(Tail(t))
    ELSE float_unsigned(t)

float_of(value) == float_signed(Strip(value))

\* lines 111-114: ast.literal_eval(value) and the isinstance test, for list;
\* the values of the model are literals that Python and JSON read alike, or
\* no literal of either
list_of(value) ==
    IF JsonLoads(value).ok /\ JsonLoads(value).v.t = "list"
    THEN Return(JsonLoads(value).v) ELSE Raise("ValueError")

\* lines 101-117: the conversion of value to var_type
Converted(value, var_type) ==
    CASE var_type = "str" -> Return(PStr(value))
      [] var_type = "int" -> int_of(value)
      [] var_type = "float" -> float_of(value)
      [] var_type = "bool" -> Return(PBool(ToLower(value) \in {<<"t", "r", "u", "e">>, <<"y", "e", "s">>, <<"1">>, <<"y">>}))
      [] var_type = "list" -> list_of(value)

\* lines 99-122: the converted value; a failed conversion raises only for a
\* required variable
ConvertedOr(r, default, required) ==
    IF ~r.raised THEN r
    ELSE IF required THEN Raise("ValueError")
    ELSE Return(default)

\* lines 81-88
ValueOr(environ, key, value, default, required, var_type) ==
    IF IsNone(value) THEN (IF required THEN Raise("ValueError") ELSE Return(default))
    ELSE ConvertedOr(Converted(PathFixed(key, value.v), var_type), default, required)

\* get_env(key, default, required, var_type) under the environment environ
get_env(environ, key, default, required, var_type) ==
    ValueOr(environ, PrefixedKey(key), os_getenv(environ, PrefixedKey(key)),
            default, required, var_type)

\* the variables of the environment, the values they are set to, and the
\* arguments of the calls
EnvNames == {env_prefix \o <<"M", "A", "X", "_", "T", "I", "L", "E", "S">>, env_prefix \o <<"D", "A", "T", "A", "_", "P", "A", "T", "H">>}
EnvValues == {<<"4", "2">>, <<"a", "b", "c">>, <<"0", ".", "5">>, <<"T", "r", "u", "e">>, <<"[", "1", ",", " ", "2", "]">>, <<"/", "a", ":", "/", "b">>}
ArgKeys == {<<"M", "A", "X", "_", "T", "I", "L", "E", "S">>, env_prefix \o <<"D", "A", "T", "A", "_", "P", "A", "T", "H">>}
Defaults == {None, PInt(7)}
VarTypes == {"str", "int", "float", "bool", "list"}

\* a variable is set in the environment
SetEnv ==
    /\ pc = "input"
    /\ \E name \in EnvNames \ DOMAIN data, value \in EnvValues :
            data' = data @@ (name :> value)
    /\ UNCHANGED <<text, nseg, pc, op, env, args, orc, extracted, stages, retry_out, ret, calls, threads, heap>>

\* a call get_env(key, default, required, var_type)
CallGetEnv ==
    /\ pc = "input"
    /\ \E key \in ArgKeys, default \in Defaults, required \in BOOLEAN, var_type \in VarTypes :
            /\ args' = [key |-> key, default |-> default, required |-> required,
                        var_type |-> var_type]
            /\ ret' = get_env(data, key, default, required, var_type)
    /\ pc' = "done"
    /\ op' = "get_env"
    /\ UNCHANGED <<text, nseg, env, orc, extracted, stages, data, retry_out, calls, threads, heap>>

InitConfig ==
    /\ text = <<>>
    /\ nseg = 0
    /\ pc = "input"
    /\ op = "none"
    /\ env = DefaultEnv
    /\ args = NoArgs
    /\ orc = NoOracle
    /\ extracted = None
    /\ stages = <<>>
    /\ data = <<>>
    /\ retry_out = NoCallback
    /\ ret = NoRet
    /\ calls = 0
    /\ threads = <<>>
    /\ heap = <<>>

NextConfig ==
    \/ SetEnv
    \/ CallGetEnv

SpecConfig == InitConfig /\ [][NextConfig]_vars

GetEnvDone == pc = "done" /\ op = "get_env"

\* C18: get_env raises ValueError when the variable is required and not
\* set, and when the conversion of its value to var_type fails, for a
\* variable that is not required too: the default does not replace a value
\* that cannot be converted
C18_InvalidValueRaises ==
    GetEnvDone =>
        /\ (args.required /\ PrefixedKey(args.key) \notin DOMAIN data) =>
                (ret.raised /\ ret.v = "ValueError")
        /\ (/\ PrefixedKey(args.key) \in DOMAIN data
            /\ Converted(PathFixed(PrefixedKey(args.key), data[PrefixedKey(args.key)]),
                         args.var_type).raised) =>
                (ret.raised /\ ret.v = "ValueError")

(***************************************************************************)
(* concurrent calls of post_process_prediction, one per thread; a step of  *)
(* a thread is one statement of the function, and the dicts live in heap   *)
(***************************************************************************)
Threads == {"t1", "t2"}

ThreadTexts == {<<>>, S.prose, S.unterminated}

ThreadOracles == [date : {ParsedNone}, tieUp : {FALSE}, score : {40, 90}]

\* a default_json kept at module level: one object for all calls
Alloc_shared(value, h) ==
    IF value = default_json THEN 0 ELSE Cardinality(DOMAIN h) + 1

\* the identity of the dict a call builds for value: the dict display of
\* default_json and the result of json.loads are new objects in each call
Alloc(value, h) == Cardinality(DOMAIN h) + 1

\* the normalizer of a scalar field
NormalizedBy(key, value, o) ==
    CASE key = K_date_value -> normalize_date(value, o.date)
      [] key = K_store_name_value -> normalize_store_name(value)
      [] key \in {K_tax_value, K_total_value} -> normalize_number(value, o.tieUp)

\* the statements of lines 155-166, in order, and what follows each
FieldAt(p) ==
    CASE p = "date" -> K_date_value
      [] p = "store" -> K_store_name_value
      [] p = "tax" -> K_tax_value
      [] p = "total" -> K_total_value

AfterField(p) ==
    CASE p = "date" -> "store"
      [] p = "store" -> "tax"
      [] p = "tax" -> "total"
      [] p = "total" -> "score"

\* line 150: data = extract_json_from_text(raw_text)
T_Extract(t) ==
    /\ threads[t].pc = "input"
    /\ \E override \in Overrides, o \in ThreadOracles, v \in {extract_json_from_text(threads[t].text)} :
            /\ heap' = heap @@ (Alloc(v, heap) :> v)
            /\ threads' = [threads EXCEPT ![t] =
                              [@ EXCEPT !.pc = "check", !.override = override, !.o = o,
                                        !.data = Alloc(v, heap)]]
    /\ UNCHANGED <<text, nseg, pc, op, env, args, orc, extracted, stages, data, retry_out, ret, calls>>

\* lines 152-153: the sentinel is returned for an empty dict
T_Check(t) ==
    /\ threads[t].pc = "check"
    /\ IF Truthy(heap[threads[t].data])
       THEN /\ threads' = [threads EXCEPT ![t].pc = "date"]
            /\ heap' = heap
       ELSE /\ heap' = heap @@ (Alloc(ErrorSentinel, heap) :> ErrorSentinel)
            /\ threads' = [threads EXCEPT ![t] =
                              [@ EXCEPT !.pc = "done", !.ret = Alloc(ErrorSentinel, heap)]]
    /\ UNCHANGED <<text, nseg, pc, op, env, args, orc, extracted, stages, data, retry_out, ret, calls>>

\* one of lines 155-166: data[key] = normalizer(data[key]), in place
T_Normalize(t) ==
    /\ threads[t].pc \in {"date", "store", "tax", "total"}
    /\ \E key \in {FieldAt(threads[t].pc)}, d \in {heap[threads[t].data]} :
            heap' = [heap EXCEPT ![threads[t].data] =
                        NormalizeField(Return(d), key,
                                       NormalizedBy(key, FieldText(d, key), threads[t].o)).v]
    /\ threads' = [threads EXCEPT ![t].pc = AfterField(threads[t].pc)]
    /\ UNCHANGED <<text, nseg, pc, op, env, args, orc, extracted, stages, data, retry_out, ret, calls>>

\* lines 168-179: the confidence keys are written in place, and data is
\* returned
T_Score(t) ==
    /\ threads[t].pc = "score"
    /\ heap' = IF _is_confidence_scoring_enabled(threads[t].override, env)
               THEN [heap EXCEPT ![threads[t].data] = AddConfidence(@, threads[t].o.score)]
               ELSE heap
    /\ threads' = [threads EXCEPT ![t] = [@ EXCEPT !.pc = "done", !.ret = threads[t].data]]
    /\ UNCHANGED <<text, nseg, pc, op, env, args, orc, extracted, stages, data, retry_out, ret, calls>>

InitThreads ==
    /\ text = <<>>
    /\ nseg = 0
    /\ pc = "input"
    /\ op = "none"
    /\ env = DefaultEnv
    /\ args = NoArgs
    /\ orc = NoOracle
    /\ extracted = None
    /\ stages = <<>>
    /\ data = None
    /\ retry_out = NoCallback
    /\ ret = NoRet
    /\ calls = 0
    /\ threads \in [Threads -> {[pc |-> "input", text |-> x, override |-> "None",
                                 o |-> NoOracle, data |-> 0, ret |-> 0] : x \in ThreadTexts}]
    /\ heap = <<>>

NextThreads ==
    \E t \in Threads :
        \/ T_Extract(t)
        \/ T_Check(t)
        \/ T_Normalize(t)
        \/ T_Score(t)

SpecThreads == InitThreads /\ [][NextThreads]_vars

\* the record the call of thread t returns when it runs alone
AloneResult(t) ==
    post_process_prediction(threads[t].text, threads[t].override, env, threads[t].o).v

\* C19: under every interleaving of the statements of concurrent
\* post_process_prediction calls, the record a call has returned is, and
\* stays, the record the call returns when it runs alone, and no two calls
\* hold the same dict object
C19_ThreadsIndependent ==
    /\ \A t \in Threads :
            threads[t].pc = "done" => heap[threads[t].ret] = AloneResult(t)
    /\ \A t, u \in Threads :
            (t # u /\ threads[t].data # 0 /\ threads[u].data # 0) =>
                threads[t].data # threads[u].data

\* two calls on different texts are over, both got the default record, and
\* only one of them scored it
C19_Witness ==
    /\ \A t \in Threads : threads[t].pc = "done"
    /\ threads["t1"].text = <<>>
    /\ threads["t2"].text = S.prose
    /\ K__confidence_score \in DOMAIN heap[threads["t1"].ret].v
    /\ K__confidence_score \notin DOMAIN heap[threads["t2"].ret].v

(***************************************************************************)
(* extract_json_from_text of json_extraction.py on a text with two fenced  *)
(* candidates                                                              *)
(***************************************************************************)
\* candidates that are prose, or broken beyond repair
EarlierCandidates ==
    {<<"h", "e", "l", "l", "o", " ", "w", "o", "r", "l", "d", " ", "h", "e", "l", "l", "o", " ", "w", "o", "r", "l", "d">>,
     <<"n", "o", " ", "r", "e", "c", "o", "r", "d", " ", "h", "e", "r", "e">>,
     <<"\"", "t", "o", "t", "a", "l", "_", "v", "a", "l", "u", "e", "\"", ":", " ", "\"", "1", ".", "2", ".", "3">>,
     <<"t", "o", "t", "a", "l", ":", " ", "5", ".", "5", ".", "5", " ">>,
     <<"{", "\"", "a", "\"", ":", " ", "[", "1", ",", " ", "2", "}">>,
     <<"{", "\"", "a", "\"", ":", " ", "1", " ", "\"", "b", "\"", " ", "2", " ", "3", "}">>,
     <<"t", "o", "t", "a", "l", ":", " ", "a", "b", "c", " ", ",", ",", ",", " ", "{">>}

\* candidates that are valid JSON, each shorter than an earlier one
LaterCandidates ==
    {<<"{", "\"", "a", "\"", ":", " ", "1", "}">>,
     <<"{", "\"", "b", "\"", ":", " ", "\"", "p", "\"", "}">>,
     <<"{", "\"", "a", "b", "\"", ":", " ", "1", "}">>,
     <<"{", "\"", "a", "\"", ":", " ", "[", "]", "}">>}

CandidateGaps == {<<"\n">>, <<" ">>}

\* a candidate between backquotes, as the model writes it
InFence(body) == S.fence \o body \o S.fence

\* the model writes a second fenced block after the first
AppendFenced ==
    /\ pc = "input"
    /\ nseg = 0
    /\ \E gap \in CandidateGaps, later \in LaterCandidates :
            text' = text \o gap \o InFence(later)
    /\ nseg' = 1
    /\ UNCHANGED <<pc, op, env, args, orc, extracted, stages, data, retry_out, ret, calls, threads, heap>>

InitCandidates ==
    /\ text \in {InFence(earlier) : earlier \in EarlierCandidates}
    /\ nseg = 0
    /\ pc = "input"
    /\ op = "none"
    /\ env = DefaultEnv
    /\ args = NoArgs
    /\ orc = NoOracle
    /\ extracted = None
    /\ stages = <<>>
    /\ data = None
    /\ retry_out = NoCallback
    /\ ret = NoRet
    /\ calls = 0
    /\ threads = <<>>
    /\ heap = <<>>

NextCandidates ==
    \/ AppendFenced
    \/ CallLegacyExtract

SpecCandidates == InitCandidates /\ [][NextCandidates]_vars

LegacyDone == pc = "done" /\ op = "json_extraction.extract_json_from_text"

\* C20: when the earlier, longer fenced candidate is prose or cannot be
\* repaired and the later candidate is valid JSON, extract_json_from_text of
\* json_extraction.py returns the parsed value of the later candidate, also
\* when the cleaning of the earlier candidate fails
C20_SearchMovesOn ==
    \A earlier \in EarlierCandidates, gap \in CandidateGaps, later \in LaterCandidates :
        (LegacyDone /\ text = InFence(earlier) \o gap \o InFence(later)) =>
            ret = Return(JsonLoads(later).v)

(***************************************************************************)
(* the candidate search of both extractors on a text of fenced blocks and  *)
(* bare objects; data keeps the pieces of the text, in order               *)
(***************************************************************************)
FencedPiece(body) == [fenced |-> TRUE, body |-> body]
BarePiece(body) == [fenced |-> FALSE, body |-> body]

\* fenced objects of equal and of greater length, a fenced word, and bare
\* objects: a flat one, one with a nested object, one with a closing brace
\* inside a string
Pieces ==
    {FencedPiece(<<"{", "\"", "a", "\"", ":", " ", "1", "}">>),
     FencedPiece(<<"{", "\"", "b", "\"", ":", " ", "2", "}">>),
     FencedPiece(<<"{", "\"", "a", "b", "\"", ":", " ", "1", "2", "}">>),
     FencedPiece(<<"h", "i">>),
     BarePiece(<<"{", "\"", "z", "\"", ":", " ", "9", "}">>),
     BarePiece(<<"{", "\"", "n", "\"", ":", " ", "{", "\"", "m", "\"", ":", " ", "1", "}", "}">>),
     BarePiece(<<"{", "\"", "s", "\"", ":", " ", "\"", "x", "}", "y", "\"", "}">>)}

MaxBlocks == 3

PieceText(piece) == IF piece.fenced THEN InFence(piece.body) ELSE piece.body

\* the model writes one more fenced block or bare object
AppendBlock ==
    /\ pc = "input"
    /\ nseg < MaxBlocks
    /\ \E piece \in Pieces :
            /\ text' = text \o PieceText(piece)
            /\ data' = Append(data, piece)
    /\ nseg' = nseg + 1
    /\ UNCHANGED <<pc, op, env, args, orc, extracted, stages, retry_out, ret, calls, threads, heap>>

InitBlocks ==
    /\ text = <<>>
    /\ nseg = 0
    /\ pc = "input"
    /\ op = "none"
    /\ env = DefaultEnv
    /\ args = NoArgs
    /\ orc = NoOracle
    /\ extracted = None
    /\ stages = <<>>
    /\ data = <<>>
    /\ retry_out = NoCallback
    /\ ret = NoRet
    /\ calls = 0
    /\ threads = <<>>
    /\ heap = <<>>

NextBlocks ==
    \/ AppendBlock
    \/ CallExtractJson
    \/ CallLegacyExtract

SpecBlocks == InitBlocks /\ [][NextBlocks]_vars

\* the bodies of the fenced pieces, and of the pieces that are objects, in
\* order of appearance
BodiesOf(ps) == [i \in 1..Len(ps) |-> ps[i].body]
FencedBodies(ps) == BodiesOf(SelectSeq(ps, LAMBDA p : p.fenced))
ObjectBodies(ps) == BodiesOf(SelectSeq(ps, LAMBDA p : p.body[1] = "{"))

\* candidate i comes before candidate j when it is longer, or as long and
\* earlier in the text
LongerFirst(cands, i, j) ==
    Len(cands[i]) > Len(cands[j]) \/ (Len(cands[i]) = Len(cands[j]) /\ i < j)

\* what each extractor makes of one candidate
FixedParse(cand) ==
    [ok |-> ~IsNone(_try_parse_with_cleaning(cand)), v |-> _try_parse_with_cleaning(cand)]
LegacyParse(cand) ==
    IF _clean_and_fix_json(cand).raised THEN Fail
    ELSE JsonLoads(_clean_and_fix_json(cand).v)

FixedParses(cands) == [i \in 1..Len(cands) |-> FixedParse(cands[i])]
LegacyParses(cands) == [i \in 1..Len(cands) |-> LegacyParse(cands[i])]

\* the value of the first fenced candidate, longest first, that parses;
\* without one, of the first object in the text that parses; without one,
\* the default record (pf and po hold what the extractor makes of each
\* fenced candidate and of each object)
FirstInOrder(fenced, pf, po) ==
    IF \E i \in 1..Len(pf) : pf[i].ok
    THEN pf[CHOOSE i \in 1..Len(pf) :
                /\ pf[i].ok
                /\ \A j \in 1..Len(pf) : LongerFirst(fenced, j, i) => ~pf[j].ok].v
    ELSE IF \E i \in 1..Len(po) : po[i].ok
    THEN po[CHOOSE i \in 1..Len(po) : po[i].ok /\ \A j \in 1..(i - 1) : ~po[j].ok].v
    ELSE default_json

\* no object of the text holds a closing brace before its last character
FlatObjects(ps) ==
    \A i \in 1..Len(ps) : \A k \in 1..(Len(ps[i].body) - 1) : ps[i].body[k] # "}"

\* C21: the fenced blocks are tried longest first, blocks of equal length
\* in order of appearance, and all of them before any brace span; the
\* record returned is the value of the first candidate in that order that
\* parses, in json_extraction_fixed.py and in json_extraction.py
C21_CandidateOrder ==
    (pc = "done" /\ FlatObjects(data)) =>
        /\ op = "extract_json_from_text" =>
                ret = Return(FirstInOrder(FencedBodies(data), FixedParses(FencedBodies(data)),
                                         FixedParses(ObjectBodies(data))))
        /\ op = "json_extraction.extract_json_from_text" =>
                ret = Return(FirstInOrder(FencedBodies(data), LegacyParses(FencedBodies(data)),
                                         LegacyParses(ObjectBodies(data))))

NoFencedPiece(ps) == \A i \in 1..Len(ps) : ~ps[i].fenced

\* C22: when no fenced block parses, each brace-span candidate runs from
\* an opening brace to its matching outermost closing brace, so that an
\* object holding a nested object, or a closing brace inside a string, is
\* offered whole, and the record returned by json_extraction.py is the
\* first of these objects that parses
C22_BraceSpans ==
    (pc = "done" /\ NoFencedPiece(data)) =>
        /\ BraceCandidates(text) = ObjectBodies(data)
        /\ op = "json_extraction.extract_json_from_text" =>
                ret = Return(FirstInOrder(<<>>, <<>>, LegacyParses(ObjectBodies(data))))

\* pieces of a JSON text cut off before its end
JsonParts ==
    {<<"{", "\"", "a", "\"", ":", " ">>, <<"{", "\"", "b", "\"", ":", " ">>,
     <<"[">>, <<"1">>, <<",", " ">>, <<"}">>, <<"]">>}

InitTruncated ==
    /\ InitCommon
    /\ env = DefaultEnv

NextTruncated ==
    \/ \E part \in JsonParts : AppendToken(part)
    \/ CallUltraClean

SpecTruncated == InitTruncated /\ [][NextTruncated]_vars

\* C23: _ultra_clean_json appends as many closing characters as are
\* missing: its result has no more opening than closing braces and no
\* more opening than closing brackets
C23_ClosersAppended ==
    (pc = "done" /\ op = "_ultra_clean_json") =>
        /\ Count(ret.v.v, "{") <= Count(ret.v.v, "}")
        /\ Count(ret.v.v, "[") <= Count(ret.v.v, "]")

\* the start of a product array, and what may follow it: an item in
\* quotes, an item ended by its comma with the closing quote missing, the
\* closing bracket, a line break
ItemsPrefix == Quoted(K_prod_item_value) \o <<":", " ", "[">>
ItemPart(chars, name) == [chars |-> chars, name |-> name]
ItemParts ==
    {ItemPart(<<"\"", "M", "i", "l", "k", "\"", ",", " ">>, <<"M", "i", "l", "k">>),
     ItemPart(<<"\"", "B", "r", "e", "a", "d", "\"", "\n">>, <<"B", "r", "e", "a", "d">>),
     ItemPart(<<"\"", "M", "i", "l", "k", " ", "2", "L", ",", "\n">>,
              <<"M", "i", "l", "k", " ", "2", "L">>),
     ItemPart(<<"\"", "E", "g", "g", "s", ",", "\n">>, <<"E", "g", "g", "s">>),
     ItemPart(<<"]">>, <<>>),
     ItemPart(<<"\n">>, <<>>)}

MaxItems == 3

\* the array grows by one part; data keeps the items written so far
AppendItem ==
    /\ pc = "input"
    /\ nseg < MaxItems
    /\ \E part \in ItemParts :
        /\ text' = text \o part.chars
        /\ data' = IF part.name = <<>> THEN data ELSE Append(data, PStr(part.name))
    /\ nseg' = nseg + 1
    /\ UNCHANGED <<pc, op, env, args, orc, extracted, stages, retry_out, ret, calls, threads, heap>>

CallReconstruct ==
    NormalizerCall("_reconstruct_malformed_json", NoOracle,
                   Return(_reconstruct_malformed_json(text)))

InitItems ==
    /\ text \in {ItemsPrefix, <<>>}
    /\ nseg = 0
    /\ pc = "input"
    /\ op = "none"
    /\ env = DefaultEnv
    /\ args = NoArgs
    /\ orc = NoOracle
    /\ extracted = None
    /\ stages = <<>>
    /\ data = <<>>
    /\ retry_out = NoCallback
    /\ ret = NoRet
    /\ calls = 0
    /\ threads = <<>>
    /\ heap = <<>>

NextItems ==
    \/ AppendItem
    \/ CallReconstruct

SpecItems == InitItems /\ [][NextItems]_vars

\* the record a reconstructor call returned
ReconstructDone == pc = "done" /\ op = "_reconstruct_malformed_json"
Reconstructed == JsonLoads(ret.v.v).v.v

C24_WitnessEmpty ==
    /\ ReconstructDone
    /\ Reconstructed[K_prod_item_value].v = <<>>
    /\ Reconstructed[K_prod_price_value].v = <<>>

\* the text is a product array that is closed, if at all, at its end
OpenArray(t) ==
    /\ Len(t) >= Len(ItemsPrefix)
    /\ SubSeq(t, 1, Len(ItemsPrefix)) = ItemsPrefix
    /\ \A k \in (Len(ItemsPrefix) + 1)..(Len(t) - 1) : t[k] # "]"

\* C25: for a prod_item_value array whose items are each quoted, or ended
\* by a comma with the closing quote missing, the reconstructor returns
\* every item between the opening bracket and the closing or inferred
\* bracket, in order, none skipped and none with its trailing comma
C25_EveryItem ==
    (ReconstructDone /\ OpenArray(text)) => Reconstructed[K_prod_item_value].v = data

\* what the model writes for a store name and for a total: a quoted key,
\* canonical or in everyday words, and its quoted value
KeyFragment(key, value) == Quoted(key) \o <<":", " ">> \o Quoted(value) \o <<",", "\n">>
StoreKeys == {K_store_name_value, <<"c", "o", "m", "p", "a", "n", "y">>, <<"s", "t", "o", "r", "e">>, <<"b", "u", "s", "i", "n", "e", "s", "s">>}
TotalKeys == {K_total_value, <<"t", "o", "t", "a", "l">>, <<"a", "m", "o", "u", "n", "t">>}
StoreValue == <<"I", "G", "A">>
TotalValue == <<"9", ".", "5", "0">>
KeyFragments ==
    {KeyFragment(key, StoreValue) : key \in StoreKeys}
        \cup {KeyFragment(key, TotalValue) : key \in TotalKeys}

CallLegacyReconstruct ==
    NormalizerCall("_reconstruct_json", NoOracle, _reconstruct_json(text))

InitKeys ==
    /\ InitCommon
    /\ env = DefaultEnv

NextKeys ==
    \/ \E fragment \in KeyFragments : AppendToken(fragment)
    \/ CallReconstruct
    \/ CallLegacyReconstruct

SpecKeys == InitKeys /\ [][NextKeys]_vars

\* the text holds a fragment keyed by one of keys
HoldsKey(t, keys) == \E key \in keys : Contains(t, Quoted(key) \o <<":">>)

\* the record, if the text returned is one, has a value under key
Populated(result, key) ==
    /\ ~result.raised
    /\ JsonLoads(result.v.v).ok
    /\ HasKey(JsonLoads(result.v.v).v, key)
    /\ JsonLoads(result.v.v).v.v[key] # PStr(<<>>)

\* C26: the reconstructors (_reconstruct_malformed_json, _reconstruct_json)
\* return a value keyed by a name containing "company", "store" or
\* "business" in store_name_value and one keyed by "total" or "amount" in
\* total_value
C26_KeyVariants ==
    (pc = "done" /\ op \in {"_reconstruct_malformed_json", "_reconstruct_json"}) =>
        /\ HoldsKey(text, StoreKeys) => Populated(ret, K_store_name_value)
        /\ HoldsKey(text, TotalKeys) => Populated(ret, K_total_value)

\* pieces of a date field: a clock time, a space, a date in digits, a date
\* with a month name
ClockTime == <<"1", "0", ":", "3", "0">>
DateTokens ==
    {ClockTime, <<" ">>, <<"1", "5", "/", "0", "6", "/", "2", "0", "2", "4">>,
     <<"1", "5", "-", "J", "u", "n">>}

InitDates ==
    /\ InitCommon
    /\ env = DefaultEnv

NextDates ==
    \/ \E tok \in DateTokens : AppendToken(tok)
    \/ CallNormalizeDate

SpecDates == InitDates /\ [][NextDates]_vars

\* the value is a clock time, a space and a date part without a space or
\* a month name
TimeThenDate(t) ==
    /\ Len(t) > Len(ClockTime) + 1
    /\ SubSeq(t, 1, Len(ClockTime) + 1) = ClockTime \o <<" ">>
    /\ \A k \in (Len(ClockTime) + 2)..Len(t) : t[k] # " "
    /\ ~\E x \in MonthNames : Contains(ToLower(t), x)

\* C27: for a value that starts with a clock time followed by a space and
\* the date, without a month name, normalize_date removes the clock time
\* and gives the date part to the parser: when the parser makes nothing of
\* it, the date part is what normalize_date returns
C27_TimeTokenRemoved ==
    (pc = "done" /\ op = "normalize_date" /\ TimeThenDate(text) /\ orc.date.k # "date") =>
        ret = Return(PStr(SubSeq(text, Len(ClockTime) + 2, Len(text))))

\* the record post_process_prediction made of the text the callback
\* returned, and whether the retry ran and gave a higher confidence
RetryRecord == post_process_prediction(retry_out.v, args.override, env, orc)
RetryRan == retry_out.k = "text" /\ ~RetryRecord.raised
RetryImproved == RetryRan /\ ConfidenceOf(RetryRecord.v, 0) > ConfidenceOf(data, 100)

\* record holds every entry of base
Extends(record, base) ==
    /\ record.t = "dict"
    /\ \A k \in DOMAIN base.v : k \in DOMAIN record.v /\ record.v[k] = base.v[k]

C28_WitnessNotImproved ==
    /\ RetryDone /\ ~ret.raised /\ RetryRan /\ ~ret.v[2]
    /\ ConfidenceOf(RetryRecord.v, 0) = ConfidenceOf(data, 100)

(***************************************************************************)
(* process_images_in_batch: one future per image path, run by the worker   *)
(* threads of a pool; the caller appends the results as they complete      *)
(***************************************************************************)
\* the greatest index of character c in s, 0 when there is none
LastIndexOf(s, c) ==
    IF \E i \in 1..Len(s) : s[i] = c
    THEN CHOOSE i \in 1..Len(s) : s[i] = c /\ \A j \in (i + 1)..Len(s) : s[j] # c
    ELSE 0

\* Path(image_path).name and Path(image_path).stem
PathName(image_path) == SubSeq(image_path, LastIndexOf(image_path, "/") + 1, Len(image_path))
StemOfName(name) ==
    IF 1 < LastIndexOf(name, ".") /\ LastIndexOf(name, ".") < Len(name)
    THEN SubSeq(name, 1, LastIndexOf(name, ".") - 1)
    ELSE name
PathStem(image_path) == StemOfName(PathName(image_path))

\* process_image(image_path, ...): raised tells whether get_raw_prediction
\* or post_process_prediction raised; the dict has no processing_time here
process_image(image_path, raised) ==
    IF raised
    THEN [image_id |-> PathStem(image_path), error |-> "str(e)"]
    ELSE [image_id |-> PathStem(image_path), extracted_info |-> "processed_json"]

\* the loop body that leaves out the result of a failed image
Collected_successes(results, result) ==
    IF "error" \in DOMAIN result THEN results ELSE Append(results, result)

\* results.append(result)
Collected(results, result) == Append(results, result)

\* sum(1 for r in results if "error" in r)
NumErrors(results) == Cardinality({k \in 1..Len(results) : "error" \in DOMAIN results[k]})

BatchStats(results) == [num_images |-> Len(results), num_errors |-> NumErrors(results)]

ImagePaths == {<<"a", "/", "x", ".", "j", "p", "g">>, <<"b", "/", "x", ".", "p", "n", "g">>, <<"y", ".", "v", "2", ".", "j", "p", "g">>}
MaxImages == 3
MaxWorkers == 2

PathLists == UNION {[1..n -> ImagePaths] : n \in 0..MaxImages}

Future(image_path) == [image_path |-> image_path, state |-> "pending", raised |-> FALSE]

\* the call: every image path is submitted to the pool
SubmitAll ==
    /\ pc = "input"
    /\ pc' = "as_completed"
    /\ op' = "process_images_in_batch"
    /\ threads' = [i \in 1..Len(args.image_paths) |-> Future(args.image_paths[i])]
    /\ data' = <<>>
    /\ UNCHANGED <<text, nseg, env, args, orc, extracted, stages, retry_out, ret, calls, heap>>

Running == {i \in 1..Len(threads) : threads[i].state = "running"}

\* a free worker takes the oldest pending task
WorkerStarts ==
    /\ pc = "as_completed"
    /\ Cardinality(Running) < args.max_workers
    /\ \E i \in 1..Len(threads) :
        /\ threads[i].state = "pending"
        /\ \A j \in 1..(i - 1) : threads[j].state # "pending"
        /\ threads' = [threads EXCEPT ![i].state = "running"]
    /\ UNCHANGED <<text, nseg, pc, op, env, args, orc, extracted, stages, data, retry_out, ret, calls, heap>>

\* process_image returns in a worker, with or without an exception inside
WorkerFinishes ==
    /\ pc = "as_completed"
    /\ \E i \in Running, raised \in BOOLEAN :
        threads' = [threads EXCEPT ![i].state = "finished", ![i].raised = raised]
    /\ UNCHANGED <<text, nseg, pc, op, env, args, orc, extracted, stages, data, retry_out, ret, calls, heap>>

\* as_completed yields a finished future and the loop appends its result
ResultCollected ==
    /\ pc = "as_completed"
    /\ \E i \in 1..Len(threads) :
        /\ threads[i].state = "finished"
        /\ threads' = [threads EXCEPT ![i].state = "yielded"]
        /\ data' = Collected(data, process_image(threads[i].image_path, threads[i].raised))
    /\ UNCHANGED <<text, nseg, pc, op, env, args, orc, extracted, stages, retry_out, ret, calls, heap>>

\* every future was yielded: the statistics, and the return
BatchReturns ==
    /\ pc = "as_completed"
    /\ \A i \in 1..Len(threads) : threads[i].state = "yielded"
    /\ pc' = "done"
    /\ ret' = Return(<<data, BatchStats(data)>>)
    /\ UNCHANGED <<text, nseg, op, env, args, orc, extracted, stages, data, retry_out, calls, threads, heap>>

InitBatch ==
    /\ text = <<>>
    /\ nseg = 0
    /\ pc = "input"
    /\ op = "none"
    /\ env = DefaultEnv
    /\ args \in [image_paths : PathLists, max_workers : 1..MaxWorkers]
    /\ orc = NoOracle
    /\ extracted = None
    /\ stages = <<>>
    /\ data = <<>>
    /\ retry_out = NoCallback
    /\ ret = NoRet
    /\ calls = 0
    /\ threads = <<>>
    /\ heap = <<>>

NextBatch ==
    \/ SubmitAll
    \/ WorkerStarts
    \/ WorkerFinishes
    \/ ResultCollected
    \/ BatchReturns

SpecBatch == InitBatch /\ [][NextBatch]_vars

BatchDone == pc = "done" /\ op = "process_images_in_batch"

\* the ways to pair n results with n images, one result for each image
Pairings(n) == {f \in [1..n -> 1..n] : \A i \in 1..n : \E k \in 1..n : f[k] = i}

\* C29: for any order of completion, process_images_in_batch returns one
\* entry for each image path submitted, with the image_id of that image;
\* the entry has the key error exactly when the processing of that image
\* raised; the statistics count the entries and the entries with error
C29_OneEntryPerImage ==
    BatchDone =>
        /\ Len(ret.v[1]) = Len(args.image_paths)
        /\ \E f \in Pairings(Len(args.image_paths)) :
            \A k \in 1..Len(ret.v[1]) :
                /\ ret.v[1][k].image_id = PathStem(args.image_paths[f[k]])
                /\ ("error" \in DOMAIN ret.v[1][k]) = threads[f[k]].raised
        /\ ret.v[2].num_images = Len(args.image_paths)
        /\ ret.v[2].num_errors = Cardinality({i \in 1..Len(threads) : threads[i].raised})

\* two images, the second completed first and with an exception
C29_Witness ==
    /\ BatchDone
    /\ Len(args.image_paths) = 2
    /\ PathStem(args.image_paths[1]) # PathStem(args.image_paths[2])
    /\ ret.v[1][1].image_id = PathStem(args.image_paths[2])
    /\ "error" \in DOMAIN ret.v[1][1]
    /\ "error" \notin DOMAIN ret.v[1][2]

(***************************************************************************)
(* load_config: the configuration from the environment, overridden by the  *)
(* parsed command line                                                     *)
(***************************************************************************)
ConfigRow(key, name, default, required, var_type) ==
    [key |-> key, name |-> name, default |-> default, required |-> required,
     var_type |-> var_type]

\* the entries of the dict display of load_config, in their order
ConfigRows ==
    <<ConfigRow("image_folder_path", <<"I", "M", "A", "G", "E", "_", "F", "O", "L", "D", "E", "R", "_", "P", "A", "T", "H">>,
                None, TRUE, "str"),
      ConfigRow("output_path", <<"O", "U", "T", "P", "U", "T", "_", "P", "A", "T", "H">>,
                None, TRUE, "str"),
      ConfigRow("model_path", <<"M", "O", "D", "E", "L", "_", "P", "A", "T", "H">>,
                PStr(<<"O", "p", "e", "n", "G", "V", "L", "a", "b", "/", "I", "n", "t", "e", "r", "n", "V", "L", "2", "_", "5", "-", "1", "B">>), FALSE, "str"),
      ConfigRow("data_path", <<"D", "A", "T", "A", "_", "P", "A", "T", "H">>,
                None, TRUE, "str"),
      ConfigRow("prompts_path", <<"P", "R", "O", "M", "P", "T", "S", "_", "P", "A", "T", "H">>,
                None, TRUE, "str"),
      ConfigRow("image_size", <<"I", "M", "A", "G", "E", "_", "S", "I", "Z", "E">>,
                PInt(448), FALSE, "int"),
      ConfigRow("max_tiles", <<"M", "A", "X", "_", "T", "I", "L", "E", "S">>,
                PInt(12), FALSE, "int"),
      ConfigRow("max_workers", <<"M", "A", "X", "_", "W", "O", "R", "K", "E", "R", "S">>,
                PInt(8), FALSE, "int"),
      ConfigRow("max_tokens", <<"M", "A", "X", "_", "T", "O", "K", "E", "N", "S">>,
                PInt(1024), FALSE, "int"),
      ConfigRow("do_sample", <<"D", "O", "_", "S", "A", "M", "P", "L", "E">>,
                PBool(FALSE), FALSE, "bool"),
      ConfigRow("prompt_name", <<"P", "R", "O", "M", "P", "T", "_", "N", "A", "M", "E">>,
                PStr(<<"d", "e", "f", "a", "u", "l", "t", "_", "r", "e", "c", "e", "i", "p", "t", "_", "p", "r", "o", "m", "p", "t">>), FALSE, "str"),
      ConfigRow("environment", <<"E", "N", "V", "I", "R", "O", "N", "M", "E", "N", "T">>,
                PStr(<<"u", "n", "k", "n", "o", "w", "n">>), FALSE, "str"),
      ConfigRow("transformers_log_level", <<"T", "R", "A", "N", "S", "F", "O", "R", "M", "E", "R", "S", "_", "L", "O", "G", "_", "L", "E", "V", "E", "L">>,
                PStr(<<"W", "A", "R", "N", "I", "N", "G">>), FALSE, "str")>>

ConfigKeys == {ConfigRows[i].key : i \in 1..Len(ConfigRows)}
RowOf(key) == ConfigRows[CHOOSE i \in 1..Len(ConfigRows) : ConfigRows[i].key = key]

\* the get_env call of one entry
EntryOf(environ, row) == get_env(environ, row.name, row.default, row.required, row.var_type)

\* the values of the get_env calls of the dict display
ConfigValues(environ) == [i \in 1..Len(ConfigRows) |-> EntryOf(environ, ConfigRows[i])]

\* the Namespace of setup_argparse().parse_args([]): None for an option
\* with a type, False for the store_true flag
ArgparseDefaults ==
    [image_folder_path |-> None, output_path |-> None, model_path |-> None,
     prompt_name |-> None, image_size |-> None, max_tiles |-> None,
     max_workers |-> None, max_tokens |-> None, do_sample |-> PBool(FALSE)]

\* parse_args(argv), argv giving the value of every option supplied
parse_args(argv) ==
    [k \in DOMAIN ArgparseDefaults |-> IF k \in DOMAIN argv THEN argv[k] ELSE ArgparseDefaults[k]]

\* lines 163-167: for key, value in vars(args).items(): if value is not
\* None: config[key] = value
Overridden(config, namespace) ==
    [k \in DOMAIN config \cup {a \in DOMAIN namespace : ~IsNone(namespace[a])} |->
        IF k \in DOMAIN namespace /\ ~IsNone(namespace[k]) THEN namespace[k] ELSE config[k]]

\* the dict of the values, if no get_env call raised, and its overrides
Loaded(values, namespace) ==
    IF \E i \in 1..Len(values) : values[i].raised THEN Raise("ValueError")
    ELSE Return(Overridden([k \in ConfigKeys |->
                                values[CHOOSE i \in 1..Len(values) : ConfigRows[i].key = k].v],
                           namespace))

\* load_config(args) under the environment environ (after load_dotenv)
load_config(environ, namespace) == Loaded(ConfigValues(environ), namespace)

\* the environment before the call, the variables that may be set as well,
\* and the options that may be supplied
BaseEnviron ==
    (<<"I", "N", "T", "E", "R", "N", "V", "L", "_", "O", "U", "T", "P", "U", "T", "_", "P", "A", "T", "H">> :> <<"o", "u", "t">>) @@ (<<"I", "N", "T", "E", "R", "N", "V", "L", "_", "D", "A", "T", "A", "_", "P", "A", "T", "H">> :> <<"d", "a", "t", "a">>) @@ (<<"I", "N", "T", "E", "R", "N", "V", "L", "_", "P", "R", "O", "M", "P", "T", "S", "_", "P", "A", "T", "H">> :> <<"p", "r", "o", "m", "p", "t", "s", ".", "y", "a", "m", "l">>)
LoadEnvNames == {<<"I", "N", "T", "E", "R", "N", "V", "L", "_", "I", "M", "A", "G", "E", "_", "F", "O", "L", "D", "E", "R", "_", "P", "A", "T", "H">>, <<"I", "N", "T", "E", "R", "N", "V", "L", "_", "M", "A", "X", "_", "W", "O", "R", "K", "E", "R", "S">>, <<"I", "N", "T", "E", "R", "N", "V", "L", "_", "D", "O", "_", "S", "A", "M", "P", "L", "E">>}
LoadEnvValues == {<<"i", "m", "g">>, <<"4">>, <<"t", "r", "u", "e">>}
CliValues ==
    [image_folder_path |-> PStr(<<"c", "l", "i">>), max_workers |-> PInt(2), do_sample |-> PBool(TRUE)]
CommandLines == {[k \in supplied |-> CliValues[k]] : supplied \in SUBSET DOMAIN CliValues}

\* a variable is set in the environment
SetLoadEnv ==
    /\ pc = "input"
    /\ \E name \in LoadEnvNames \ DOMAIN data, value \in LoadEnvValues :
            data' = data @@ (name :> value)
    /\ UNCHANGED <<text, nseg, pc, op, env, args, orc, extracted, stages, retry_out, ret, calls, threads, heap>>

\* main: args = parse_args(), config = load_config(args)
CallLoadConfig ==
    /\ pc = "input"
    /\ \E argv \in CommandLines :
            /\ args' = [argv |-> argv]
            /\ ret' = load_config(data, parse_args(argv))
    /\ pc' = "done"
    /\ op' = "load_config"
    /\ UNCHANGED <<text, nseg, env, orc, extracted, stages, data, retry_out, calls, threads, heap>>

InitLoad ==
    /\ text = <<>>
    /\ nseg = 0
    /\ pc = "input"
    /\ op = "none"
    /\ env = DefaultEnv
    /\ args = NoArgs
    /\ orc = NoOracle
    /\ extracted = None
    /\ stages = <<>>
    /\ data = BaseEnviron
    /\ retry_out = NoCallback
    /\ ret = NoRet
    /\ calls = 0
    /\ threads = <<>>
    /\ heap = <<>>

NextLoad ==
    \/ SetLoadEnv
    \/ CallLoadConfig

SpecLoad == InitLoad /\ [][NextLoad]_vars

LoadDone == pc = "done" /\ op = "load_config"

\* C30: load_config gives a key the command-line value only when that
\* option was supplied on the command line, and the value of the
\* environment, or the default, otherwise; so with INTERNVL_DO_SAMPLE=true
\* and no --do-sample, do_sample is true
C30_CommandLineOverrides ==
    (LoadDone /\ ~ret.raised) =>
        \A key \in ConfigKeys :
            ret.v[key] = IF key \in DOMAIN args.argv THEN args.argv[key]
                         ELSE EntryOf(data, RowOf(key)).v

====
